---- MODULE Spec2Model ----
(***************************************************************************)
(* A model of the excel2erp extraction-and-generation engine               *)
(* (excel2erp-python/src/excel.py, engine.py, model.py).                   *)
(*                                                                         *)
(* Python strings are modelled as sequences of one-character strings, so   *)
(* "A1" is <<"A", "1">> and "" is <<>>.  Python's None is the value None   *)
(* below.  A Python dict is modelled as a sequence of <<key, value>> pairs *)
(* in insertion order with unique keys.                                    *)
(*                                                                         *)
(* The engine is a set of pure functions; each is an operator here, and    *)
(* each specification draws the function's inputs in its initial states    *)
(* and applies the function in its actions.                                *)
(***************************************************************************)
EXTENDS Integers, Sequences, FiniteSets, TLC

VARIABLES
    pc,             \* position of the caller in the pipeline being run
    address,        \* argument of parse_cell_address
    parsed,         \* its outcome: coordinates or ValueError
    template,       \* argument of expand
    props,          \* field map handed to expand
    expanded,       \* result of expand
    spec,           \* FileSpec handed to generate_content
    separator,      \* separator handed to generate_content
    records,        \* records handed to generate_content
    resolved,       \* generate_content: value per record/property before expansion
    values,         \* generate_content: value per record/property after expansion
    content,        \* result of generate_content
    source,         \* Source configuration of the header pipeline
    result_header,  \* FileSpec of the header file (config.result.header)
    sheet,          \* worksheet: cell values by <<row, col>>
    header_data,    \* result of extract_header
    missing,        \* result of missing_properties
    table,          \* result of read_table, with the headers it scanned
    detail_data,    \* result of extract_detail
    raw_value,      \* value handed to apply_replacements
    replace_prop,   \* SourceProperty handed to apply_replacements
    replaced,       \* result of apply_replacements
    header_content, \* header content handed to create_zip
    detail_content, \* detail content handed to create_zip
    result,         \* ResultConfig handed to create_zip
    now,            \* the clock, in seconds
    archive,        \* result of create_zip
    config,         \* Config the web application was created with
    request,        \* the POST /load request: form fields and uploaded file
    workbook,       \* worksheets of the uploaded workbook
    responses,      \* responses of the /load requests served so far
    heap,           \* dicts by identity: heap[ref] is the content of dict ref
    header_ref,     \* identity of the header record, 0 before extract_header
    detail_refs,    \* identities of the detail records
    threads,        \* the /load requests being served, each with its position
    frames,         \* local variables of the calls of load(), by frame
    selected_source, \* desktop: Source chosen in the dropdown, or none
    selected_file,  \* desktop: path of the picked workbook, or None
    missing_props,  \* desktop: properties the form asks for
    field_widgets,  \* desktop: text of the input widget of each property
    data_loaded,    \* desktop: the flag that makes the button export
    disk,           \* files on disk, by path
    status,         \* desktop: the status line
    event,          \* the handler that ran last and how it ended
    scan_pc,        \* read_table: the loop the call is in, or how it ended
    start_at,       \* read_table: (start_row, start_col) parsed from start_address
    scan_col,       \* read_table: col of the header scan
    scan_headers,   \* read_table: headers
    scan_row_num,   \* read_table: row_num of the row scan
    scan_rows,      \* read_table: rows
    served          \* the requests the web application has answered, in order

vars == <<pc, address, parsed, template, props, expanded, spec, separator,
          records, resolved, values, content, source, result_header, sheet,
          header_data, missing,
          table, detail_data,
          raw_value, replace_prop, replaced,
          header_content, detail_content, result, now, archive,
          config, request, workbook, responses,
          heap, header_ref, detail_refs,
          threads, frames,
          selected_source, selected_file, missing_props, field_widgets,
          data_loaded, disk, status, event,
          scan_pc, start_at, scan_col, scan_headers, scan_row_num, scan_rows,
          served>>

-----------------------------------------------------------------------------
(* Python values *)

\* None: a value different from every string (no string holds a non-character).
None == <<"None">>

\* The value of a variable no operation has written yet.
NotCalled == [kind |-> "none"]

\* A Python int n >= 0 held where strings are held too (the index field):
\* the tag "int" followed by the decimal digits of n.
IsPyInt(v) == v /= <<>> /\ v[1] = "int"

\* Python truthiness: None, "" and 0 are falsy.
Truthy(v) == v /= None /\ v /= <<>> /\ v /= <<"int", "0">>

\* Python's  a or b .
PyOr(a, b) == IF Truthy(a) THEN a ELSE b

\* ord(c) for the characters the model uses.
Ord(c) ==
    CASE c = "\n" -> 10  [] c = " " -> 32  [] c = "$" -> 36  [] c = "-" -> 45
      [] c = "." -> 46
      [] c = "0" -> 48  [] c = "1" -> 49  [] c = "2" -> 50  [] c = "3" -> 51
      [] c = "4" -> 52  [] c = "5" -> 53  [] c = "6" -> 54  [] c = "7" -> 55
      [] c = "8" -> 56  [] c = "9" -> 57
      [] c = ";" -> 59
      [] c = "A" -> 65  [] c = "B" -> 66  [] c = "D" -> 68  [] c = "E" -> 69
      [] c = "H" -> 72  [] c = "I" -> 73  [] c = "N" -> 78  [] c = "S" -> 83
      [] c = "X" -> 88  [] c = "Z" -> 90
      [] c = "_" -> 95
      [] c = "a" -> 97  [] c = "b" -> 98  [] c = "c" -> 99  [] c = "d" -> 100
      [] c = "e" -> 101 [] c = "h" -> 104 [] c = "i" -> 105 [] c = "k" -> 107
      [] c = "m" -> 109 [] c = "n" -> 110 [] c = "o" -> 111 [] c = "q" -> 113
      [] c = "r" -> 114 [] c = "s" -> 115 [] c = "u" -> 117 [] c = "x" -> 120
      [] c = "z" -> 122
      [] c = "{" -> 123 [] c = "}" -> 125

\* [A-Za-z]
IsLetter(c) == Ord(c) \in 65..90 \/ Ord(c) \in 97..122

\* \d (the ASCII digits; the model holds no other Unicode digit)
IsDigit(c) == Ord(c) \in 48..57

\* \w
IsWord(c) == IsLetter(c) \/ IsDigit(c) \/ c = "_"

\* str.isspace() of one character
IsSpace(c) == c = " " \/ c = "\n"

\* All strings over alphabet A of length at most n.
Strings(A, n) == UNION {[1..k -> A] : k \in 0..n}

\* s[from..] (1-based); empty when from is past the end.
Drop(s, from) == SubSeq(s, from, Len(s))

\* str(n) for n >= 0: the decimal digits of n.
DigitChars == <<"0", "1", "2", "3", "4", "5", "6", "7", "8", "9">>

RECURSIVE IntToStr(_)
IntToStr(n) ==
    IF n < 10 THEN <<DigitChars[n + 1]>>
    ELSE IntToStr(n \div 10) \o <<DigitChars[(n % 10) + 1]>>

\* int(s) for a non-empty string of ASCII digits.
RECURSIVE StrToInt(_)
StrToInt(s) ==
    IF s = <<>> THEN 0
    ELSE StrToInt(SubSeq(s, 1, Len(s) - 1)) * 10 + (Ord(s[Len(s)]) - 48)

PyInt(n) == <<"int">> \o IntToStr(n)

\* str(v): v is a string already or an int.
PyStr(v) == IF IsPyInt(v) THEN Tail(v) ELSE v

-----------------------------------------------------------------------------
(* excel.py: parse_cell_address *)

ValueError == [kind |-> "ValueError"]

\* Length of the longest run of characters satisfying the class, from index i.
RECURSIVE LetterRun(_, _)
LetterRun(s, i) ==
    IF i <= Len(s) /\ IsLetter(s[i]) THEN 1 + LetterRun(s, i + 1) ELSE 0

RECURSIVE DigitRun(_, _)
DigitRun(s, i) ==
    IF i <= Len(s) /\ IsDigit(s[i]) THEN 1 + DigitRun(s, i + 1) ELSE 0

\* c.upper() for one character of the model's alphabet.
UpperLetters == {"A", "B", "D", "E", "H", "I", "N", "S", "X", "Z"}

Upper(c) ==
    IF Ord(c) \in 97..122
    THEN CHOOSE u \in UpperLetters : Ord(u) = Ord(c) - 32
    ELSE c

\* The loop  for c in col_str.upper(): col = col * 26 + (ord(c) - ord("A") + 1)
RECURSIVE ColumnZeroBased(_)
ColumnZeroBased(col_str) ==
    IF col_str = <<>> THEN 0
    ELSE ColumnZeroBased(SubSeq(col_str, 1, Len(col_str) - 1)) * 26
         + (Ord(Upper(col_str[Len(col_str)])) - Ord("A"))

RECURSIVE ColumnOf(_)
ColumnOf(col_str) ==
    IF col_str = <<>> THEN 0
    ELSE ColumnOf(SubSeq(col_str, 1, Len(col_str) - 1)) * 26
         + (Ord(Upper(col_str[Len(col_str)])) - Ord("A") + 1)

\* re.match(r"([A-Za-z]+)(\d+)", address): anchored at the start only; both
\* groups are greedy and the two classes are disjoint, so group 1 is the
\* longest leading run of letters and group 2 the longest run of digits after it.
ParseCellAddress(a) ==
    LET nl == LetterRun(a, 1)
        nd == DigitRun(a, nl + 1)
    IN  IF nl = 0 \/ nd = 0 THEN ValueError
        ELSE [kind |-> "ok",
              row  |-> StrToInt(SubSeq(a, nl + 1, nl + nd)),
              col  |-> ColumnOf(SubSeq(a, 1, nl))]

-----------------------------------------------------------------------------
(* excel.py: cell_to_string, and the worksheet *)

\* Cell values by type: None, str, int, float (integer part and the digits
\* after the point, none for a whole number), datetime and date.
EmptyCell == [t |-> "none"]
StrCell(v) == [t |-> "str", v |-> v]
IntCell(n) == [t |-> "int", n |-> n]
FloatCell(n, frac) == [t |-> "float", n |-> n, frac |-> frac]
DateCell(y, m, d) == [t |-> "date", y |-> y, m |-> m, d |-> d]
DateTimeCell(y, m, d) == [t |-> "datetime", y |-> y, m |-> m, d |-> d]

\* n in decimal, zero-filled to the width (strftime's %Y, %m, %d).
ZeroFilled(n, width) ==
    LET digits == IntToStr(n)
    IN  [i \in 1..(width - Len(digits)) |-> "0"] \o digits

CellToString(cell) ==
    CASE cell.t = "none" -> <<>>
      [] cell.t \in {"datetime", "date"} ->
            ZeroFilled(cell.y, 4) \o ZeroFilled(cell.m, 2) \o ZeroFilled(cell.d, 2)
      [] cell.t = "float" /\ cell.frac = <<>> -> IntToStr(cell.n)
      [] cell.t = "float" /\ cell.frac /= <<>> ->
            IntToStr(cell.n) \o <<".">> \o cell.frac
      [] cell.t = "int" -> IntToStr(cell.n)
      [] cell.t = "str" -> cell.v

\* sheet.cell(row, col): the cell of the worksheet, an empty cell where the
\* sheet holds none; openpyxl raises ValueError for a row or column below 1.
SheetCell(sh, row, col) ==
    IF row < 1 \/ col < 1 THEN ValueError
    ELSE IF <<row, col>> \in DOMAIN sh THEN sh[<<row, col>>]
    ELSE EmptyCell

-----------------------------------------------------------------------------
(* Python dict: a sequence of <<key, value>> pairs, keys unique, in insertion
   order *)

DictKeys(d) == {d[i][1] : i \in 1..Len(d)}

DictHas(d, k) == k \in DictKeys(d)

\* d.get(k, default)
DictGet(d, k, default) ==
    IF DictHas(d, k)
    THEN d[CHOOSE i \in 1..Len(d) : d[i][1] = k][2]
    ELSE default

\* d[k] = v: an existing key keeps its position, a new key goes last.
DictSet(d, k, v) ==
    IF DictHas(d, k)
    THEN [i \in 1..Len(d) |-> IF d[i][1] = k THEN <<k, v>> ELSE d[i]]
    ELSE Append(d, <<k, v>>)

\* d.update(e)
RECURSIVE DictUpdate(_, _)
DictUpdate(d, e) ==
    IF e = <<>> THEN d
    ELSE DictUpdate(DictSet(d, e[1][1], e[1][2]), Tail(e))

-----------------------------------------------------------------------------
(* engine.py: expand *)

\* Length of the longest run of \w characters of t from index i.
RECURSIVE WordRun(_, _)
WordRun(t, i) ==
    IF i <= Len(t) /\ IsWord(t[i]) THEN 1 + WordRun(t, i + 1) ELSE 0

\* Whether the pattern \$\{(\w+)\} matches t at index i.  \w+ is greedy and
\* "}" is no word character, so the group is the whole run of word characters.
MatchesAt(t, i) ==
    /\ i + 3 <= Len(t)
    /\ t[i] = "$"
    /\ t[i + 1] = "{"
    /\ WordRun(t, i + 2) >= 1
    /\ i + 2 + WordRun(t, i + 2) <= Len(t)
    /\ t[i + 2 + WordRun(t, i + 2)] = "}"

\* The replacement function: str(props.get(m.group(1), "")).
Replacer(p, key) == PyStr(DictGet(p, key, <<>>))

\* re.sub over t from index i: leftmost non-overlapping matches are replaced,
\* scanning resumes after each match, and the replacement is not scanned.
RECURSIVE ExpandFrom(_, _, _)
ExpandFrom(t, i, p) ==
    IF i > Len(t) THEN <<>>
    ELSE IF MatchesAt(t, i)
         THEN LET w == WordRun(t, i + 2)
              IN  Replacer(p, SubSeq(t, i + 2, i + 1 + w))
                      \o ExpandFrom(t, i + 3 + w, p)
         ELSE <<t[i]>> \o ExpandFrom(t, i + 1, p)

ExpandRescanning(t, p) == ExpandFrom(ExpandFrom(t, 1, p), 1, p)

Expand(t, p) == ExpandFrom(t, 1, p)

-----------------------------------------------------------------------------
(* model.py: ResultProperty, FileSpec *)

\* ResultProperty(name, type, default_value); the prompt is a label of the user
\* interface and is left out.
ResultProperty(name, type, default_value) ==
    [name |-> name, type |-> type, default_value |-> default_value]

FileSpec(filename, properties, prolog, epilog) ==
    [filename |-> filename, properties |-> properties,
     prolog |-> prolog, epilog |-> epilog]

-----------------------------------------------------------------------------
(* engine.py: generate_content *)

\* s.rstrip()
RECURSIVE RStrip(_)
RStrip(s) ==
    IF s /= <<>> /\ IsSpace(s[Len(s)]) THEN RStrip(SubSeq(s, 1, Len(s) - 1))
    ELSE s

\* "${" in s
HasPlaceholderStart(s) ==
    \E i \in 1..(Len(s) - 1) : s[i] = "$" /\ s[i + 1] = "{"

\* sep.join(items)
RECURSIVE Join(_, _)
Join(sep, items) ==
    IF items = <<>> THEN <<>>
    ELSE IF Len(items) = 1 THEN items[1]
    ELSE items[1] \o sep \o Join(sep, Tail(items))

IndexKey == <<"i", "n", "d", "e", "x">>

\* value = record.get(prop.name) or prop.default_value or ""
ResolveValueNoEmptyFallback(record, prop) ==
    PyOr(DictGet(record, prop.name, prop.default_value), <<>>)

ResolveValue(record, prop) ==
    PyOr(PyOr(DictGet(record, prop.name, None), prop.default_value), <<>>)

\* if "${" in str(value): value = expand(str(value), {**record, "index": idx})
ExpandValueOneBased(value, record, idx) ==
    IF HasPlaceholderStart(PyStr(value))
    THEN Expand(PyStr(value), DictSet(record, IndexKey, PyInt(idx + 1)))
    ELSE value

ExpandValue(value, record, idx) ==
    IF HasPlaceholderStart(PyStr(value))
    THEN Expand(PyStr(value), DictSet(record, IndexKey, PyInt(idx)))
    ELSE value

\* The string appended to values for one property of one record.
FieldValue(record, prop, idx) ==
    PyStr(ExpandValue(ResolveValue(record, prop), record, idx))

\* separator.join(values) for one record: one value per property of the
\* FileSpec, in the order of spec.properties.
DataLineInRecordOrder(fs, sep, record, idx) ==
    Join(sep, [k \in 1..Len(record) |-> PyStr(record[k][2])])

DataLine(fs, sep, record, idx) ==
    Join(sep, [j \in 1..Len(fs.properties) |->
                  FieldValue(record, fs.properties[j], idx)])

\* generate_content(spec, separator, records); idx is enumerate's 0-based index.
GenerateContent(fs, sep, recs) ==
    LET prolog_lines == IF fs.prolog /= <<>> THEN <<RStrip(fs.prolog)>> ELSE <<>>
        data_lines == [i \in 1..Len(recs) |-> DataLine(fs, sep, recs[i], i - 1)]
        epilog_lines == IF fs.epilog /= <<>> THEN <<RStrip(fs.epilog)>> ELSE <<>>
    IN  Join(<<"\n">>, prolog_lines \o data_lines \o epilog_lines)

-----------------------------------------------------------------------------
(* model.py: SourceProperty, DetailConfig, Source, FileSpec.default_values *)

\* replacements: a dict of pattern -> replacement, in insertion order.
SourceProperty(name, locator, replacements) ==
    [name |-> name, locator |-> locator, replacements |-> replacements]

DetailConfig(locator, properties, end_value) ==
    [locator |-> locator, properties |-> properties, end_value |-> end_value]

\* description and logo belong to the user interface and are left out.
Source(name, sheet_index, header, detail, default_values) ==
    [name |-> name, sheet_index |-> sheet_index, header |-> header,
     detail |-> detail, default_values |-> default_values]

\* {p.name: p.default_value for p in self.properties if p.default_value}
RECURSIVE DefaultValuesFrom(_, _)
DefaultValuesFrom(d, properties) ==
    IF properties = <<>> THEN d
    ELSE DefaultValuesFrom(
             IF Truthy(properties[1].default_value)
             THEN DictSet(d, properties[1].name, properties[1].default_value)
             ELSE d,
             Tail(properties))

DefaultValues(fs) == DefaultValuesFrom(<<>>, fs.properties)

-----------------------------------------------------------------------------
(* engine.py: apply_replacements *)

\* re.sub(pattern, replacement, s) for the patterns of the model: "^c+", the
\* leading run of the character c, and "c", every occurrence of the character
\* c.  The replacement is literal text.
RECURSIVE RunOf(_, _, _)
RunOf(s, c, i) == IF i <= Len(s) /\ s[i] = c THEN 1 + RunOf(s, c, i + 1) ELSE 0

RECURSIVE ReplaceEvery(_, _, _)
ReplaceEvery(s, c, replacement) ==
    IF s = <<>> THEN <<>>
    ELSE (IF s[1] = c THEN replacement ELSE <<s[1]>>)
             \o ReplaceEvery(Tail(s), c, replacement)

ReSub(pattern, replacement, s) ==
    IF Len(pattern) = 3 /\ pattern[1] = "^" /\ pattern[3] = "+"
    THEN IF RunOf(s, pattern[2], 1) >= 1
         THEN replacement \o Drop(s, RunOf(s, pattern[2], 1) + 1)
         ELSE s
    ELSE ReplaceEvery(s, pattern[1], replacement)

\* The pairs applied from the last to the first.
RECURSIVE ApplyPairsReversed(_, _)
ApplyPairsReversed(value, pairs) ==
    IF pairs = <<>> THEN value
    ELSE ReSub(pairs[1][1], pairs[1][2], ApplyPairsReversed(value, Tail(pairs)))

\* for pattern, replacement in prop.replacements.items(): result = re.sub(...)
RECURSIVE ApplyPairs(_, _)
ApplyPairs(value, pairs) ==
    IF pairs = <<>> THEN value
    ELSE ApplyPairs(ReSub(pairs[1][1], pairs[1][2], value), Tail(pairs))

ApplyReplacements(value, prop) == ApplyPairs(value, prop.replacements)

-----------------------------------------------------------------------------
(* engine.py: extract_header, missing_properties *)

\* What a call that may raise gives: the value returned, or ValueError.
Returned(v) == [kind |-> "ok", value |-> v]

\* The loop over source.header; ValueError when a locator does not parse or
\* names no cell, and then no record is returned.
RECURSIVE ExtractHeaderLoop(_, _, _)
ExtractHeaderLoop(data, header, sh) ==
    IF header = <<>> THEN Returned(data)
    ELSE LET prop == header[1]
             at == ParseCellAddress(prop.locator)
         IN  IF at = ValueError THEN ValueError
             ELSE IF SheetCell(sh, at.row, at.col) = ValueError THEN ValueError
             ELSE ExtractHeaderLoop(
                      DictSet(data, prop.name,
                              ApplyReplacements(
                                  CellToString(SheetCell(sh, at.row, at.col)), prop)),
                      Tail(header), sh)

\* The three layers with the result defaults laid over the source defaults.
ExtractHeaderResultDefaultsWin(sh, src, fs) ==
    ExtractHeaderLoop(DictUpdate(src.default_values, DefaultValues(fs)),
                      src.header, sh)

\* The three layers with the defaults laid over the extracted values.
ExtractHeaderDefaultsLast(sh, src, fs) ==
    LET extracted == ExtractHeaderLoop(<<>>, src.header, sh)
    IN  IF extracted = ValueError THEN ValueError
        ELSE Returned(DictUpdate(DictUpdate(extracted.value, DefaultValues(fs)),
                                 src.default_values))

ExtractHeader(sh, src, fs) ==
    ExtractHeaderLoop(DictUpdate(DefaultValues(fs), src.default_values),
                      src.header, sh)

MissingPropertiesIgnoringSourceDefaults(src, fs) ==
    LET extracted == {src.header[i].name : i \in 1..Len(src.header)}
        defaulted == DictKeys(DefaultValues(fs))
    IN  SelectSeq(fs.properties,
                  LAMBDA p : p.name \notin extracted /\ p.name \notin defaulted)

MissingProperties(src, fs) ==
    LET extracted == {src.header[i].name : i \in 1..Len(src.header)}
        defaulted == DictKeys(src.default_values) \cup DictKeys(DefaultValues(fs))
    IN  SelectSeq(fs.properties,
                  LAMBDA p : p.name \notin extracted /\ p.name \notin defaulted)

-----------------------------------------------------------------------------
(* excel.py: read_table *)

\* not val.strip(): the text is empty or whitespace only.
IsBlank(val) == \A i \in 1..Len(val) : IsSpace(val[i])

\* PHASE 1: the header texts scanned rightward from (start_row, col) up to
\* the first blank cell.  The worksheet holds finitely many cells.
RECURSIVE ReadHeaders(_, _, _)
ReadHeaders(sh, start_row, col) ==
    LET val == CellToString(SheetCell(sh, start_row, col))
    IN  IF IsBlank(val) THEN <<>>
        ELSE <<val>> \o ReadHeaders(sh, start_row, col + 1)

\* {headers[i]: cell_to_string(sheet.cell(row_num, start_col + i)) for i in
\* range(len(headers))}, built from column i on.
RECURSIVE RowData(_, _, _, _, _, _)
RowData(row_data, sh, row_num, start_col, headers, i) ==
    IF i >= Len(headers) THEN row_data
    ELSE RowData(DictSet(row_data, headers[i + 1],
                         CellToString(SheetCell(sh, row_num, start_col + i))),
                 sh, row_num, start_col, headers, i + 1)

\* The stop test without the blank test for whitespace.
StopsAtEmptyOnly(sh, row_num, start_col, end_value) ==
    LET first_cell == CellToString(SheetCell(sh, row_num, start_col))
    IN  first_cell = <<>> \/ (Truthy(end_value) /\ first_cell = end_value)

\* The stop test without the sentinel.
StopsAtIgnoringSentinel(sh, row_num, start_col, end_value) ==
    IsBlank(CellToString(SheetCell(sh, row_num, start_col)))

\* The stop condition of the data loop, tested on the first cell of row_num.
StopsAt(sh, row_num, start_col, end_value) ==
    LET first_cell == CellToString(SheetCell(sh, row_num, start_col))
    IN  IsBlank(first_cell) \/ (Truthy(end_value) /\ first_cell = end_value)

\* PHASE 2: the data rows from row_num down to the stop row.
RECURSIVE ReadRows(_, _, _, _, _)
ReadRows(sh, row_num, start_col, headers, end_value) ==
    IF StopsAt(sh, row_num, start_col, end_value) THEN <<>>
    ELSE <<RowData(<<>>, sh, row_num, start_col, headers, 0)>>
             \o ReadRows(sh, row_num + 1, start_col, headers, end_value)

\* The table read, headers included, or ValueError.
ReadTableScan(sh, start_address, end_value) ==
    LET at == ParseCellAddress(start_address)
    IN  IF at = ValueError THEN ValueError
        ELSE IF SheetCell(sh, at.row, at.col) = ValueError THEN ValueError
        ELSE LET headers == ReadHeaders(sh, at.row, at.col)
             IN  [kind |-> "ok",
                  headers |-> headers,
                  value |-> IF headers = <<>> THEN <<>>
                            ELSE ReadRows(sh, at.row + 1, at.col, headers,
                                          end_value)]

\* return rows
ReturnedRows(scan) ==
    IF scan = ValueError THEN ValueError ELSE Returned(scan.value)

ReadTable(sh, start_address, end_value) ==
    ReturnedRows(ReadTableScan(sh, start_address, end_value))

-----------------------------------------------------------------------------
(* engine.py: extract_detail *)

\* col_map = {p.locator: p for p in source.detail.properties}
RECURSIVE ColMap(_, _)
ColMap(col_map, properties) ==
    IF properties = <<>> THEN col_map
    ELSE ColMap(DictSet(col_map, properties[1].locator, properties[1]),
                Tail(properties))

\* {col_map[k].name: apply_replacements(v, col_map[k]) for k, v in
\* row.items() if k in col_map}
RECURSIVE MapRow(_, _, _)
MapRow(record, row, col_map) ==
    IF row = <<>> THEN record
    ELSE LET k == row[1][1]
             v == row[1][2]
         IN  IF DictHas(col_map, k)
             THEN MapRow(DictSet(record, DictGet(col_map, k, None).name,
                                 ApplyReplacements(v, DictGet(col_map, k, None))),
                         Tail(row), col_map)
             ELSE MapRow(record, Tail(row), col_map)

\* The list comprehension over raw_rows.
MapRows(raw_rows, col_map) ==
    IF raw_rows = ValueError THEN ValueError
    ELSE Returned([r \in 1..Len(raw_rows.value) |->
                      MapRow(<<>>, raw_rows.value[r], col_map)])

ExtractDetail(sh, src) ==
    MapRows(ReadTable(sh, src.detail.locator, src.detail.end_value),
            ColMap(<<>>, src.detail.properties))

-----------------------------------------------------------------------------
(* engine.py: create_zip, with zipfile's writestr and read *)

\* model.py: ResultConfig
ResultConfig(sep, base_name, header, detail) ==
    [separator |-> sep, base_name |-> base_name, header |-> header,
     detail |-> detail]

\* The character U+00E9, outside ASCII.
EAcute == "U+00E9"

\* The character U+0663, ARABIC-INDIC DIGIT THREE: a decimal digit outside
\* ASCII, which \d matches in a str pattern.
ArabicThree == "U+0663"

\* One character in UTF-8: one byte for ASCII, two for U+00E9 and U+0663.
Utf8Char(c) ==
    IF c = EAcute THEN <<195, 169>>
    ELSE IF c = ArabicThree THEN <<217, 163>>
    ELSE <<Ord(c)>>

\* content.encode("utf-8")
RECURSIVE Utf8Encode(_)
Utf8Encode(text) ==
    IF text = <<>> THEN <<>>
    ELSE Utf8Char(text[1]) \o Utf8Encode(Tail(text))

\* The ASCII characters that contents hold.
ContentAscii == {"1", ";", "\n"}

\* bytes.decode("utf-8")
RECURSIVE Utf8Decode(_)
Utf8Decode(bytes) ==
    IF bytes = <<>> THEN <<>>
    ELSE IF bytes[1] < 128
         THEN <<CHOOSE c \in ContentAscii : Ord(c) = bytes[1]>>
                  \o Utf8Decode(Tail(bytes))
         ELSE <<IF bytes[1] = 195 THEN EAcute ELSE ArabicThree>>
                  \o Utf8Decode(Tail(Tail(bytes)))

\* What create_zip raises for an empty filename where writestr indexes
\* filename[-1].
IndexError == [kind |-> "IndexError"]

\* How writestr tests for a directory name: filename[-1] == '/' raises
\* IndexError on an empty name, filename.endswith('/') does not.
ZipBuilds == {"index", "endswith"}

\* zf.writestr(filename, data): one more entry, stamped with the local time;
\* the archive keeps the time in units of two seconds.
WriteStr(zf, filename, data, t) ==
    Append(zf, [filename |-> filename, data |-> data, dos_time |-> t \div 2])

\* The archive bytes, as the entries they hold in order, or IndexError.
CreateZip(hc, dc, rc, t, build) ==
    IF build = "index" /\ (rc.header.filename = <<>> \/ rc.detail.filename = <<>>)
    THEN IndexError
    ELSE Returned(WriteStr(WriteStr(<<>>, rc.header.filename, Utf8Encode(hc), t),
                           rc.detail.filename, Utf8Encode(dc), t))

\* ZipFile(bytes).namelist()
NameList(zf) == [i \in 1..Len(zf) |-> zf[i].filename]

\* ZipFile(bytes).read(name): NameToInfo keeps the last entry of a name.
KeyError == [kind |-> "KeyError"]

ZipRead(zf, name) ==
    IF \E i \in 1..Len(zf) : zf[i].filename = name
    THEN Returned(zf[CHOOSE i \in 1..Len(zf) :
                        /\ zf[i].filename = name
                        /\ \A j \in (i + 1)..Len(zf) : zf[j].filename /= name].data)
    ELSE KeyError

-----------------------------------------------------------------------------
(* excel2erp.py: create_app and the /load handler *)

\* model.py: Config, with the fields the handler reads.
Config(sources, res) == [sources |-> sources, result |-> res]

\* re.sub(r"\D+", "", value)
\* \d in a str pattern: a decimal digit, ASCII or not.
IsDecimal(c) == c = ArabicThree \/ IsDigit(c)

\* The first run of non-digits deleted, as re.sub with count=1 does.
RECURSIVE NormalizeDateOnce(_)
NormalizeDateOnce(text) ==
    IF text = <<>> THEN <<>>
    ELSE IF IsDecimal(text[1]) THEN <<text[1]>> \o NormalizeDateOnce(Tail(text))
    ELSE IF Len(text) > 1 /\ ~IsDecimal(text[2])
         THEN NormalizeDateOnce(Tail(text))
    ELSE Tail(text)

\* Every run of one or more characters that \d does not match is replaced
\* by the empty string.
RECURSIVE NormalizeDate(_)
NormalizeDate(text) ==
    IF text = <<>> THEN <<>>
    ELSE IF IsDecimal(text[1]) THEN <<text[1]>> \o NormalizeDate(Tail(text))
    ELSE NormalizeDate(Tail(text))

\* source_map = {s.name: s for s in config.sources}
RECURSIVE SourceMap(_, _)
SourceMap(source_map, sources) ==
    IF sources = <<>> THEN source_map
    ELSE SourceMap(DictSet(source_map, sources[1].name, sources[1]),
                   Tail(sources))

\* list[index]: from the front for 0 and up, from the back below 0,
\* IndexError outside.
ListIndex(list, index) ==
    IF 0 <= index /\ index < Len(list) THEN Returned(list[index + 1])
    ELSE IF index < 0 /\ -index <= Len(list)
         THEN Returned(list[Len(list) + index + 1])
    ELSE IndexError

\* text.endswith(suffix)
EndsWith(text, suffix) ==
    /\ Len(text) >= Len(suffix)
    /\ SubSeq(text, Len(text) - Len(suffix) + 1, Len(text)) = suffix

Xlsx == <<".", "x", "l", "s", "x">>
SourceField == <<"s", "o", "u", "r", "c", "e">>
SourceNameKey == <<"s", "o", "u", "r", "c", "e", "N", "a", "m", "e">>
ZipSuffix == <<".", "z", "i", "p">>

\* for prop in missing_map[source_name]: header_data[prop.name] = the form
\* value, normalized when the property is a date.
RECURSIVE AddUserFields(_, _, _)
AddUserFields(data, missing_list, form) ==
    IF missing_list = <<>> THEN data
    ELSE LET p == missing_list[1]
             v == DictGet(form, p.name, <<>>)
         IN  AddUserFields(
                 DictSet(data, p.name,
                         IF p.type = "date" THEN NormalizeDate(v) ELSE v),
                 Tail(missing_list), form)

\* request.files.get("wbFile"): the uploaded file, or none.
FileStorage(filename) == [given |-> TRUE, filename |-> filename]
NoFile == [given |-> FALSE, filename |-> <<>>]

\* The pages the handler renders instead of a download.
ErrorPage(message) == [kind |-> "page", message |-> message]

\* send_file(zip_bytes, download_name=zip_filename), or the error page of
\* the except clause when create_zip raises.  The response carries the
\* datasets it was generated from.
SendFile(zip_bytes, zip_filename, data, detail) ==
    IF zip_bytes = IndexError THEN ErrorPage("extractionError")
    ELSE [kind |-> "file",
          zip_bytes |-> zip_bytes.value,
          download_name |-> zip_filename,
          header_data |-> data,
          detail_data |-> detail]

\* Generate content, create ZIP: the steps of load() from the header record
\* completed with the user's fields.
Generate(cfg, data, detail, t, build) ==
    SendFile(CreateZip(GenerateContent(cfg.result.header, cfg.result.separator,
                                       <<data>>),
                       GenerateContent(cfg.result.detail, cfg.result.separator,
                                       detail),
                       cfg.result, t, build),
             Expand(cfg.result.base_name, data) \o ZipSuffix,
             data, detail)

\* Add user-provided fields and sourceName: the steps of load() from the
\* extracted datasets, or the error page when extraction raised.
Extracted(cfg, src, extracted, detail, form, t, build) ==
    IF extracted = ValueError \/ detail = ValueError
    THEN ErrorPage("extractionError")
    ELSE Generate(cfg,
                  DictSet(AddUserFields(extracted.value,
                                        MissingProperties(src, cfg.result.header),
                                        form),
                          SourceNameKey, src.name),
                  detail.value, t, build)

\* Extract data: the steps of load() after the sheet is chosen.
LoadSheet(cfg, src, sh, form, t, build) ==
    Extracted(cfg, src, ExtractHeader(sh, src, cfg.result.header),
              ExtractDetail(sh, src), form, t, build)

\* The steps of load() from the source chosen: the sheet, or the error page
\* when the workbook has no sheet of that index.
LoadSource(cfg, src, picked, form, t, build) ==
    IF picked = IndexError THEN ErrorPage("extractionError")
    ELSE LoadSheet(cfg, src, picked.value, form, t, build)

\* load(): the response to one POST /load.
Load(cfg, req, wb, t, build) ==
    LET source_name == DictGet(req.form, SourceField, None)
        source_map == SourceMap(<<>>, cfg.sources)
    IN  IF ~Truthy(source_name) \/ ~DictHas(source_map, source_name)
        THEN ErrorPage("Fuente no seleccionada")
        ELSE IF ~req.file.given \/ req.file.filename = <<>>
        THEN ErrorPage("Archivo no proporcionado")
        ELSE IF ~EndsWith(req.file.filename, Xlsx)
        THEN ErrorPage("Solo archivos .xlsx")
        ELSE LoadSource(cfg, DictGet(source_map, source_name, None),
                        ListIndex(wb, DictGet(source_map, source_name, None).sheet_index),
                        req.form, t, build)

-----------------------------------------------------------------------------
(* excel2erp.py: load() step by step, as the threads of the server run it *)

FrameOfShared(i) == 1

\* The local variables of load(): every call has its own.
FrameOf(i) == i

\* The local variables before the call assigns them.
NoLocals ==
    [header_data |-> NotCalled, detail_data |-> NotCalled,
     header_content |-> NotCalled, detail_content |-> NotCalled]

\* A thread that has taken a request and not yet run a step of load().
Thread(req, wb) ==
    [pc |-> "begin", request |-> req, workbook |-> wb, response |-> NotCalled,
     time |-> 0, build |-> "none", overlapped |-> FALSE]

\* load() from its first line to the extraction: the response when the
\* handler returns here, NotCalled when it goes on.
LoadBeginResponse(cfg, req, wb) ==
    LET source_name == DictGet(req.form, SourceField, None)
        source_map == SourceMap(<<>>, cfg.sources)
    IN  IF ~Truthy(source_name) \/ ~DictHas(source_map, source_name)
        THEN ErrorPage("Fuente no seleccionada")
        ELSE IF ~req.file.given \/ req.file.filename = <<>>
        THEN ErrorPage("Archivo no proporcionado")
        ELSE IF ~EndsWith(req.file.filename, Xlsx)
        THEN ErrorPage("Solo archivos .xlsx")
        ELSE IF ListIndex(wb, DictGet(source_map, source_name,
                                      None).sheet_index) = IndexError
        THEN ErrorPage("extractionError")
        ELSE NotCalled

\* source_map[source_name] of a request that passed the checks.
RequestSource(cfg, req) ==
    DictGet(SourceMap(<<>>, cfg.sources),
            DictGet(req.form, SourceField, None), None)

\* wb.worksheets[source.sheet_index]
RequestSheet(cfg, req, wb) ==
    ListIndex(wb, RequestSource(cfg, req).sheet_index).value

-----------------------------------------------------------------------------
(* src/excel2erp.py: the desktop shell, Excel2ErpApp *)

\* self.selected_source = None
NoSource == [name |-> None]

\* A Source with the fields the shell shows: the description listed in the
\* dropdown, and whether the file named by logo can be read as an image.
ShownSource(src, description, logo_loads) ==
    [name |-> src.name, sheet_index |-> src.sheet_index,
     header |-> src.header, detail |-> src.detail,
     default_values |-> src.default_values,
     description |-> description, logo_loads |-> logo_loads]

\* next((s for s in self.config.sources if s.description == idx), None)
FirstByDescription(sources, idx) ==
    IF \E k \in 1..Len(sources) : sources[k].description = idx
    THEN sources[CHOOSE k \in 1..Len(sources) :
                    /\ sources[k].description = idx
                    /\ \A j \in 1..(k - 1) : sources[j].description /= idx]
    ELSE NoSource

\* DateEntry(date_pattern="yyyy-mm-dd") shows today's date when created; an
\* Entry is created empty.
Today == <<"1", "-", "1">>

\* The widgets _on_source_selected creates, one per missing property.
RECURSIVE NewWidgets(_, _)
NewWidgets(widgets, missing_list) ==
    IF missing_list = <<>> THEN widgets
    ELSE NewWidgets(DictSet(widgets, missing_list[1].name,
                            IF missing_list[1].type = "date" THEN Today
                            ELSE <<>>),
                    Tail(missing_list))

\* _export: for prop in self.missing_props: the header record after the
\* loop, and whether self.field_widgets[prop.name] raised KeyError on the
\* way; what was written before the error stays written.
RECURSIVE MergeWidgets(_, _, _)
MergeWidgets(data, missing_list, widgets) ==
    IF missing_list = <<>> THEN [data |-> data, raised |-> FALSE]
    ELSE IF ~DictHas(widgets, missing_list[1].name)
    THEN [data |-> data, raised |-> TRUE]
    ELSE LET p == missing_list[1]
             v == DictGet(widgets, p.name, <<>>)
         IN  MergeWidgets(DictSet(data, p.name,
                                  IF p.type = "date" THEN NormalizeDate(v)
                                  ELSE v),
                          Tail(missing_list), widgets)

ExportModeAlways(loaded) == TRUE

\* _on_action_click: if self.data_loaded: self._export()
ExportMode(loaded) == loaded

\* What Path(output_path).write_bytes(zip_bytes) can do: write the file;
\* fail to open it; open it, which creates or empties it, and fail to write.
WriteOutcomes == {"written", "open fails", "write fails"}

\* The disk after write_bytes.
WriteBytes(files, path, bytes, outcome) ==
    IF outcome = "written" THEN DictSet(files, path, Returned(bytes))
    ELSE IF outcome = "write fails"
    THEN DictSet(files, path, Returned(<<>>))
    ELSE files

-----------------------------------------------------------------------------
(* The pipeline with dicts by identity: which object each step writes *)

\* A dict that did not exist before: dict(...), {...}, a comprehension.
Alloc(h) == Len(h) + 1

\* The heap with the content d written to the dict ref.
Store(h, ref, d) ==
    IF ref = Len(h) + 1 THEN Append(h, d) ELSE [h EXCEPT ![ref] = d]

\* The dicts of a Source: default_values, then the replacements of each
\* header property, then those of each detail property.
ConfigObjects(src) ==
    <<src.default_values>>
    \o [i \in 1..Len(src.header) |-> src.header[i].replacements]
    \o [i \in 1..Len(src.detail.properties) |->
           src.detail.properties[i].replacements]

SourceDefaultsRef == 1

\* The Source as the engine reads it: its fields, with the present content
\* of its dicts.
LiveSource(h, src) ==
    [src EXCEPT
        !.default_values = h[SourceDefaultsRef],
        !.header = [i \in 1..Len(src.header) |->
                       [src.header[i] EXCEPT !.replacements = h[1 + i]]],
        !.detail = [src.detail EXCEPT
                       !.properties =
                           [i \in 1..Len(src.detail.properties) |->
                               [src.detail.properties[i] EXCEPT
                                   !.replacements =
                                       h[1 + Len(src.header) + i]]]]]

ExtractHeaderDataAliased(h) == SourceDefaultsRef

\* data = dict(result_header.default_values): the dict extract_header fills
\* and returns is a new one.
ExtractHeaderData(h) == Alloc(h)

\* The row dicts of extract_detail's list comprehension: new dicts.
RECURSIVE StoreAll(_, _)
StoreAll(h, dicts) ==
    IF dicts = <<>> THEN h
    ELSE StoreAll(Store(h, Alloc(h), dicts[1]), Tail(dicts))

\* {**record, "index": idx}: the props handed to expand are a new dict.
ExpansionProps(h, ref) == Alloc(h)

\* generate_content on one record: the heap after its values are resolved.
GenerateRecord(h, fs, ref, idx) ==
    IF \E j \in 1..Len(fs.properties) :
           HasPlaceholderStart(PyStr(ResolveValue(h[ref], fs.properties[j])))
    THEN Store(h, ExpansionProps(h, ref),
               DictSet(h[ref], IndexKey, PyInt(idx)))
    ELSE h

\* generate_content on the records refs, numbered from idx.
RECURSIVE GenerateRecords(_, _, _, _)
GenerateRecords(h, fs, refs, idx) ==
    IF refs = <<>> THEN h
    ELSE GenerateRecords(GenerateRecord(h, fs, refs[1], idx), fs,
                         Tail(refs), idx + 1)

-----------------------------------------------------------------------------
(* Bounds and input sets *)

\* Longest address handed to parse_cell_address.
MaxAddrLen == 3

\* Letters, digits and one character that is neither.
AddrChars == {"A", "B", "Z", "a", "b", "z", "0", "1", "9", "-"}

\* Most pieces a template is put together from.
MaxPieces == 3

\* The pieces: single characters, an unterminated placeholder head and a
\* whole placeholder.
ExpandPieces ==
    {<<"$">>, <<"{">>, <<"}">>, <<"a">>, <<"-">>,
     <<"$", "{", "a">>, <<"$", "{", "b", "}">>}

RECURSIVE Flatten(_)
Flatten(ps) == IF ps = <<>> THEN <<>> ELSE Head(ps) \o Flatten(Tail(ps))

Templates == {Flatten(ps) : ps \in Strings(ExpandPieces, MaxPieces)}

\* Field maps over the keys a and b; a value may itself hold a placeholder,
\* and may be an int.
ExpandValues == {<<"x">>, <<"$", "{", "b", "}">>, PyInt(7)}

ExpandProps ==
    {<<>>}
    \cup {<<<< <<"a">>, v >>>> : v \in ExpandValues}
    \cup {<<<< <<"b">>, v >>>> : v \in ExpandValues}
    \cup {<<<< <<"a">>, v >>, << <<"b">>, w >>>> :
              v \in ExpandValues, w \in ExpandValues}

\* Most records handed to generate_content.
MaxRecords == 2

KeyA == <<"a">>
KeyB == <<"b">>

\* The property lists of a FileSpec: the names a and b in either order, a with
\* or without the default "D", b without default, with the default "" or with
\* the default "${index}".
DefaultsOfA == {None, <<"D">>}
DefaultsOfB == {None, <<>>, <<"$", "{", "i", "n", "d", "e", "x", "}">>}

PropertyLists ==
    {<<>>}
    \cup {<<ResultProperty(KeyA, "text", da)>> : da \in DefaultsOfA}
    \cup {<<ResultProperty(KeyB, "text", db)>> : db \in DefaultsOfB}
    \cup {<<ResultProperty(KeyA, "text", da), ResultProperty(KeyB, "text", db)>> :
              da \in DefaultsOfA, db \in DefaultsOfB}
    \cup {<<ResultProperty(KeyB, "text", db), ResultProperty(KeyA, "text", da)>> :
              da \in DefaultsOfA, db \in DefaultsOfB}

\* Prolog and epilog: none, text with trailing whitespace, whitespace only.
Prologs == {<<>>, <<"H", " ">>, <<" ">>}
Epilogs == {<<>>, <<"X">>, <<" ">>}

Separators == {<<";">>}

\* Records: none of the fields, a alone, both fields in either key order, an
\* empty field beside one that refers to it, and a field named index.
RecordChoices ==
    {<<>>,
     << <<KeyA, <<"1">> >> >>,
     << <<KeyA, <<"1">> >>, <<KeyB, <<"2">> >> >>,
     << <<KeyB, <<"2">> >>, <<KeyA, <<"1">> >> >>,
     << <<KeyA, <<>> >>, <<KeyB, <<"$", "{", "a", "}">> >> >>,
     << <<IndexKey, <<"9">> >>, <<KeyA, <<"$", "{", "i", "n", "d", "e", "x", "}">> >> >>}

\* The header FileSpec: the properties a and b in either order; a without
\* default, with the default "" or with the default "D", b without default or
\* with a default that refers to a.
HeaderDefaultsOfA == {None, <<>>, <<"D">>}
HeaderDefaultsOfB == {None, <<"$", "{", "a", "}">>}

HeaderPropertyLists ==
    {<<ResultProperty(KeyA, "text", da), ResultProperty(KeyB, "text", db)>> :
        da \in HeaderDefaultsOfA, db \in HeaderDefaultsOfB}
    \cup {<<ResultProperty(KeyB, "text", db), ResultProperty(KeyA, "text", da)>> :
              da \in HeaderDefaultsOfA, db \in HeaderDefaultsOfB}

\* Header properties of a source: a is not extracted, or read from A1, as it
\* is or with leading zeros stripped; b is not extracted, or read from b1, or
\* has the malformed locator "A".  Names are unique within the list.
StripZeros == << << <<"^", "0", "+">>, <<>> >> >>

HeaderOfA ==
    {<<>>,
     <<SourceProperty(KeyA, <<"A", "1">>, <<>>)>>,
     <<SourceProperty(KeyA, <<"A", "1">>, StripZeros)>>}

HeaderOfB ==
    {<<>>,
     <<SourceProperty(KeyB, <<"b", "1">>, <<>>)>>,
     <<SourceProperty(KeyB, <<"A">>, <<>>)>>}

\* source.default_values: a absent, "" or "S"; b absent or "S".
SourceDefaultsOfA == {<<>>, << <<KeyA, <<>> >> >>, << <<KeyA, <<"S">> >> >>}
SourceDefaultsOfB == {<<>>, << <<KeyB, <<"S">> >> >>}

\* The cells A1 and B1 of the worksheet.
CellsA1 == {EmptyCell, StrCell(<<"0", "0", "7">>), FloatCell(5, <<>>),
            StrCell(<<"$", "{", "b", "}">>)}
CellsB1 == {EmptyCell, DateCell(2024, 1, 15)}

NoDetail == DetailConfig(<<"A", "2">>, <<>>, None)

\* Most data rows the worksheet holds below the header row of the table.
MaxTableRows == 2

\* The two cells of the header row: no first header, one header, two headers,
\* the same header twice, a header with a trailing space.
HeaderRowKinds ==
    {<<EmptyCell, StrCell(<<"k">>)>>,
     <<StrCell(<<"h">>), StrCell(<<" ">>)>>,
     <<StrCell(<<"h">>), StrCell(<<"k">>)>>,
     <<StrCell(<<"h">>), StrCell(<<"h">>)>>,
     <<StrCell(<<"h", " ">>), StrCell(<<"k">>)>>}

\* The two cells of a data row: the first cell empty, blank, a value, the
\* sentinel, or the sentinel followed by a space.
DataRowKinds ==
    {<<EmptyCell, FloatCell(5, <<>>)>>,
     <<StrCell(<<" ">>), FloatCell(5, <<>>)>>,
     <<StrCell(<<"0", "7">>), EmptyCell>>,
     <<StrCell(<<"0", "7">>), FloatCell(5, <<>>)>>,
     <<StrCell(<<"T">>), FloatCell(5, <<>>)>>,
     <<StrCell(<<"T", " ">>), FloatCell(5, <<>>)>>}

\* A worksheet with the header row in row 1 and the data rows below it.
TableSheet(header_row, data_rows) ==
    [rc \in (1..(1 + Len(data_rows))) \X (1..2) |->
        IF rc[1] = 1 THEN header_row[rc[2]] ELSE data_rows[rc[1] - 1][rc[2]]]

TableSheets ==
    {TableSheet(h, d) : h \in HeaderRowKinds,
                        d \in [1..MaxTableRows -> DataRowKinds]}

\* detail.locator: the table starts at A1 or at B1, or the locator is
\* malformed.  detail.end_value: none, or "T".
DetailLocators == {<<"A", "1">>, <<"b", "1">>, <<"A">>}
EndValues == {None, <<"T">>}

\* detail.properties: both columns mapped, a locator no column has, two
\* properties on one column, one name on two columns, no property.
DetailPropertyLists ==
    {<<SourceProperty(KeyA, <<"h">>, StripZeros), SourceProperty(KeyB, <<"k">>, <<>>)>>,
     <<SourceProperty(KeyA, <<"q">>, <<>>)>>,
     <<SourceProperty(KeyA, <<"h">>, <<>>), SourceProperty(KeyB, <<"h">>, StripZeros)>>,
     <<SourceProperty(KeyA, <<"h">>, StripZeros), SourceProperty(KeyA, <<"k">>, <<>>)>>,
     <<>>}

\* Longest value handed to apply_replacements.
MaxValueLen == 3

\* Values are made of these characters.
ValueChars == {"0", "7", "-"}

\* The (pattern, replacement) pairs a property is configured with: strip
\* leading zeros, remove dashes, turn zeros into dashes, turn leading dashes
\* into one zero.
ReplacementPairs ==
    {<< <<"^", "0", "+">>, <<>> >>,
     << <<"-">>, <<>> >>,
     << <<"0">>, <<"-">> >>,
     << <<"^", "-", "+">>, <<"0">> >>}

\* replacements is a dict: no pattern twice; none, one or two pairs.
ReplacementChains ==
    {<<>>} \cup {<<p>> : p \in ReplacementPairs}
           \cup {<<pq[1], pq[2]>> :
                    pq \in {pq \in ReplacementPairs \X ReplacementPairs :
                               pq[1][1] /= pq[2][1]}}

\* Most seconds the clock advances.
MaxTicks == 2

\* Contents handed to create_zip: empty, one line, two lines, non-ASCII text.
ZipContents ==
    {<<>>, <<"1", ";", "1">>, <<"1", "\n", "1">>, <<EAcute, "1">>}

\* Filenames of the two FileSpecs: plain, a template, empty.
ZipFilenames == {<<"h">>, <<"d">>, <<"$", "{", "a", "}">>, <<>>}

\* Most /load requests served.
MaxRuns == 2

\* The workbook uploaded: one sheet, the table h, k at A1 with one data row.
LoadSheets ==
    {TableSheet(<<StrCell(<<"h">>), StrCell(<<"k">>)>>,
                <<<<StrCell(<<"0", "7">>), FloatCell(5, <<>>)>>>>)}

\* Header properties of the source: none, a read from A2, a with a locator
\* that has no digits, a with a locator that has a trailing character.
LoadHeaders ==
    {<<>>,
     <<SourceProperty(KeyA, <<"A", "2">>, StripZeros)>>,
     <<SourceProperty(KeyA, <<"A">>, <<>>)>>,
     <<SourceProperty(KeyA, <<"a", "2", "-">>, <<>>)>>}

\* The detail table: at A1 or with a malformed locator; both columns mapped
\* or one property whose locator no column carries.
LoadDetails ==
    {DetailConfig(loc, ps, None) :
        loc \in {<<"A", "1">>, <<"A">>},
        ps \in {<<SourceProperty(KeyA, <<"h">>, <<>>),
                  SourceProperty(KeyB, <<"k">>, <<>>)>>,
                <<SourceProperty(KeyA, <<"q">>, <<>>)>>}}

\* source.sheet_index: the one sheet, one past it, or one counted from the
\* end of the list.
SheetIndexes == {0, 1, -1}

\* result: the header file named plainly or by a template, with a text
\* property a and a date property b; the detail file d with a and b.
LoadResults ==
    {ResultConfig(<<";">>, <<"$", "{", "a", "}">>,
                  FileSpec(hf, <<ResultProperty(KeyA, "text", None),
                                 ResultProperty(KeyB, "date", None)>>, <<>>, <<>>),
                  FileSpec(<<"d">>, <<ResultProperty(KeyA, "text", None),
                                      ResultProperty(KeyB, "text", None)>>,
                           <<>>, <<>>)) :
        hf \in {<<"h">>, <<"$", "{", "a", "}">>}}

\* Longest value typed into the date field.
MaxDateLen == 3

\* The values typed into the date field b: digits, separators and a digit
\* outside ASCII.
DateValues == Strings({"1", "-", ArabicThree}, MaxDateLen)

\* The form: the source s or an unknown one, b given or not; the file: none,
\* an .xlsx or an .xls upload.
LoadForms ==
    {<< <<SourceField, sn>> >> \o fb :
        sn \in {<<"s">>, <<"z">>},
        fb \in {<<>>} \cup {<< <<KeyB, vb>> >> : vb \in DateValues}}

LoadFiles ==
    {NoFile, FileStorage(<<"o">> \o Xlsx), FileStorage(<<"o", ".", "x", "l", "s">>)}

LoadConfigs ==
    {Config(<<Source(<<"s">>, si, h, d, <<>>)>>, res) :
        h \in LoadHeaders, d \in LoadDetails, si \in SheetIndexes,
        res \in LoadResults}

LoadRequests ==
    {[form |-> form, file |-> file] : form \in LoadForms, file \in LoadFiles}

\* Every configuration is run with this request, and every request against
\* this configuration.
PlainRequest ==
    [form |-> << <<SourceField, <<"s">>>>, <<KeyB, <<"1", "-", "1">>>> >>,
     file |-> FileStorage(<<"o">> \o Xlsx)]

PlainConfig ==
    Config(<<Source(<<"s">>, 0,
                    <<SourceProperty(KeyA, <<"A", "2">>, StripZeros)>>,
                    DetailConfig(<<"A", "1">>,
                                 <<SourceProperty(KeyA, <<"h">>, <<>>),
                                   SourceProperty(KeyB, <<"k">>, <<>>)>>, None),
                    <<>>)>>,
           ResultConfig(<<";">>, <<"$", "{", "a", "}">>,
                        FileSpec(<<"h">>,
                                 <<ResultProperty(KeyA, "text", None),
                                   ResultProperty(KeyB, "date", None)>>,
                                 <<>>, <<>>),
                        FileSpec(<<"d">>,
                                 <<ResultProperty(KeyA, "text", None),
                                   ResultProperty(KeyB, "text", None)>>,
                                 <<>>, <<>>)))

LoadInputs ==
    {input \in LoadConfigs \X LoadRequests :
        input[1] = PlainConfig \/ input[2] = PlainRequest}

-----------------------------------------------------------------------------

\* Most dicts alive before another conversion starts.
MaxObjects == 8

KeyC == <<"c">>

\* Sources of the pipeline by identity: a extracted from A2 or not, or with
\* a locator without digits; the columns h and k mapped to a and b;
\* default_values empty, or defining c or a.
FrameSources ==
    {Source(<<"s">>, 0, h,
            DetailConfig(<<"A", "1">>,
                         <<SourceProperty(KeyA, <<"h">>, StripZeros),
                           SourceProperty(KeyB, <<"k">>, <<>>)>>, None),
            dv) :
        h \in {<<>>, <<SourceProperty(KeyA, <<"A", "2">>, StripZeros)>>,
               <<SourceProperty(KeyA, <<"A">>, <<>>)>>},
        dv \in {<<>>, << <<KeyC, <<"S">>>> >>, << <<KeyA, <<"S">>>> >>}}

\* result: the header file with a, the date b and c, where c has no default,
\* a plain one or a template; the detail file with a, b and a line number.
FrameResults ==
    {ResultConfig(<<";">>, <<"$", "{", "a", "}">>,
                  FileSpec(<<"h">>,
                           <<ResultProperty(KeyA, "text", None),
                             ResultProperty(KeyB, "date", None),
                             ResultProperty(KeyC, "text", dc)>>, <<>>, <<>>),
                  FileSpec(<<"d">>,
                           <<ResultProperty(KeyA, "text", None),
                             ResultProperty(KeyB, "text", None),
                             ResultProperty(KeyC, "text", dn)>>, <<>>, <<>>)) :
        dc \in {None, <<"D">>, <<"$", "{", "a", "}">>},
        dn \in {None, <<"$", "{", "i", "n", "d", "e", "x", "}">>}}

\* The values the user gives for the fields asked for.
FrameForms ==
    {<< <<KeyB, vb>>, <<KeyC, <<"u">>>> >> : vb \in {<<>>, <<"1", "-", "1">>}}

\* The worksheet: the table h, k at A1 with one or two data rows.
FrameSheets ==
    {TableSheet(<<StrCell(<<"h">>), StrCell(<<"k">>)>>, rows) :
        rows \in {<< <<StrCell(<<"0", "7">>), FloatCell(5, <<>>)>> >>,
                  << <<StrCell(<<"0", "7">>), FloatCell(5, <<>>)>>,
                     <<StrCell(<<"8">>), EmptyCell>> >>}}

-----------------------------------------------------------------------------

\* The configuration the server runs with: the source s reads a from A2 and
\* asks for the date b; the source z reads b from B2 and asks for a.
ConcConfig ==
    Config(<<Source(<<"s">>, 0,
                    <<SourceProperty(KeyA, <<"A", "2">>, StripZeros)>>,
                    DetailConfig(<<"A", "1">>,
                                 <<SourceProperty(KeyA, <<"h">>, <<>>),
                                   SourceProperty(KeyB, <<"k">>, <<>>)>>, None),
                    <<>>),
             Source(<<"z">>, 0,
                    <<SourceProperty(KeyB, <<"B", "2">>, <<>>)>>,
                    DetailConfig(<<"A", "1">>,
                                 <<SourceProperty(KeyB, <<"h">>, <<>>)>>, None),
                    <<>>)>>,
           ResultConfig(<<";">>, <<"$", "{", "a", "}">>,
                        FileSpec(<<"h">>,
                                 <<ResultProperty(KeyA, "text", None),
                                   ResultProperty(KeyB, "date", None)>>,
                                 <<>>, <<>>),
                        FileSpec(<<"d">>,
                                 <<ResultProperty(KeyA, "text", None),
                                   ResultProperty(KeyB, "text",
                                                  <<"$", "{", "i", "n", "d",
                                                    "e", "x", "}">>)>>,
                                 <<>>, <<>>)))

\* The requests the clients send: the source s or z with a value for a and
\* for b, or a request without a file.
ConcRequests ==
    {[form |-> << <<SourceField, sn>>, <<KeyA, <<"9">>>>, <<KeyB, vb>> >>,
      file |-> FileStorage(<<"o">> \o Xlsx)] :
        sn \in {<<"s">>, <<"z">>}, vb \in {<<"1", "-", "1">>, <<"2">>}}
    \cup {[form |-> << <<SourceField, <<"s">>>> >>, file |-> NoFile]}

\* The workbooks uploaded: one sheet with the table h, k and one data row.
ConcWorkbooks ==
    {<<TableSheet(<<StrCell(<<"h">>), StrCell(<<"k">>)>>, <<row>>)>> :
        row \in {<<StrCell(<<"0", "7">>), FloatCell(5, <<>>)>>,
                 <<StrCell(<<"8">>), StrCell(<<"1">>)>>}}

-----------------------------------------------------------------------------

\* The files the file dialog offers: two workbooks with one sheet each, and
\* a file that load_workbook cannot open.
PathO == <<"o">>
PathP == <<"p">>
PathBad == <<"x">>
PickPaths == {PathO, PathP, PathBad}

\* load_workbook(path): the sheets of the workbook, or an error.
LoadWorkbook(path) ==
    IF path = PathO
    THEN Returned(<<TableSheet(<<StrCell(<<"h">>), StrCell(<<"k">>)>>,
                               << <<StrCell(<<"0", "7">>),
                                    FloatCell(5, <<>>)>> >>)>>)
    ELSE IF path = PathP
    THEN Returned(<<TableSheet(<<StrCell(<<"h">>), StrCell(<<"k">>)>>,
                               << <<StrCell(<<"8">>), StrCell(<<"1">>)>> >>)>>)
    ELSE ValueError

\* The path the save dialog returns when the user confirms.
PathOut == <<"z", "i", "p">>

\* The desktop's sources: S reads a from A2 and asks for the date b; Z reads
\* b from B2, asks for a and has a logo that may not load; E names a sheet
\* the workbooks do not have; Q defines sourceName itself and asks for b.
DeskSources ==
    <<ShownSource(ConcConfig.sources[1], <<"S">>, {TRUE}),
      ShownSource(ConcConfig.sources[2], <<"Z">>, {TRUE, FALSE}),
      ShownSource(Source(<<"e">>, 1, <<>>,
                         DetailConfig(<<"A", "1">>, <<>>, None), <<>>),
                  <<"E">>, {TRUE}),
      ShownSource(Source(<<"q">>, 0,
                         <<SourceProperty(KeyA, <<"A", "2">>, <<>>)>>,
                         DetailConfig(<<"A", "1">>,
                                      <<SourceProperty(KeyA, <<"h">>, <<>>)>>,
                                      None),
                         << <<SourceNameKey, <<"S">>>> >>),
                  <<"Q">>, {TRUE})>>

\* The desktop's configurations: the detail file named d, or left without a
\* name.
DeskConfigs ==
    {Config(DeskSources,
            [ConcConfig.result EXCEPT !.detail.filename = fn]) :
        fn \in {<<"d">>, <<>>}}

\* What the user types into a field.
FieldTexts == {<<>>, <<"9">>, <<"2", "-", ArabicThree>>}

\* The sources of the form specification: s and q read a from A2, and q
\* defines sourceName itself, as "S".
FormSources ==
    <<Source(<<"s">>, 0, <<SourceProperty(KeyA, <<"A", "2">>, <<>>)>>,
             DetailConfig(<<"A", "1">>,
                          <<SourceProperty(KeyA, <<"h">>, <<>>),
                            SourceProperty(KeyB, <<"k">>, <<>>)>>, None),
             <<>>),
      Source(<<"q">>, 0, <<SourceProperty(KeyA, <<"A", "2">>, <<>>)>>,
             DetailConfig(<<"A", "1">>,
                          <<SourceProperty(KeyA, <<"h">>, <<>>),
                            SourceProperty(KeyB, <<"k">>, <<>>)>>, None),
             << <<SourceNameKey, <<"S">>>> >>)>>

\* result: the header file h with a, the date b, c with no default, an empty
\* or a plain one, and sourceName; the detail file d with a and b.
FormConfigs ==
    {Config(FormSources,
            ResultConfig(<<";">>, <<"$", "{", "a", "}">>,
                         FileSpec(<<"h">>,
                                  <<ResultProperty(KeyA, "text", None),
                                    ResultProperty(KeyB, "date", None),
                                    ResultProperty(KeyC, "text", dc),
                                    ResultProperty(SourceNameKey, "text", None)>>,
                                  <<>>, <<>>),
                         FileSpec(<<"d">>,
                                  <<ResultProperty(KeyA, "text", None),
                                    ResultProperty(KeyB, "text", None)>>,
                                  <<>>, <<>>))) :
        dc \in {None, <<>>, <<"D">>}}

\* The forms posted: the source s or q, and any of the fields a, b, c and
\* sourceName.
FormForms ==
    {<< <<SourceField, sn>> >> \o fa \o fb \o fc \o fn :
        sn \in {<<"s">>, <<"q">>},
        fa \in {<<>>, << <<KeyA, <<"u">>>> >>},
        fb \in {<<>>, << <<KeyB, <<"1", "-", "1">>>> >>},
        fc \in {<<>>, << <<KeyC, <<"u">>>> >>},
        fn \in {<<>>, << <<SourceNameKey, <<"u">>>> >>}}

-----------------------------------------------------------------------------
(* Variables a specification does not use keep these values. *)

AddrIdle == address = <<>> /\ parsed = NotCalled

ExpandIdle == template = <<>> /\ props = <<>> /\ expanded = NotCalled

GenIdle ==
    /\ spec = NotCalled /\ separator = <<>> /\ records = <<>>
    /\ resolved = NotCalled /\ values = NotCalled /\ content = NotCalled

HeaderIdle ==
    /\ source = NotCalled /\ result_header = NotCalled /\ sheet = NotCalled
    /\ header_data = NotCalled /\ missing = NotCalled

DetailIdle == table = NotCalled /\ detail_data = NotCalled

ZipIdle ==
    /\ header_content = <<>> /\ detail_content = <<>> /\ result = NotCalled
    /\ now = 0 /\ archive = NotCalled

LoadIdle ==
    /\ config = NotCalled /\ request = NotCalled /\ workbook = <<>>
    /\ responses = <<>>

ReplaceIdle ==
    raw_value = <<>> /\ replace_prop = NotCalled /\ replaced = NotCalled

FrameIdle == heap = <<>> /\ header_ref = 0 /\ detail_refs = <<>>

ConcIdle == threads = <<>> /\ frames = <<>>

DeskIdle ==
    /\ selected_source = NotCalled /\ selected_file = <<>>
    /\ missing_props = <<>> /\ field_widgets = <<>> /\ data_loaded = FALSE
    /\ disk = <<>> /\ status = "" /\ event = NotCalled

ScanIdle ==
    /\ scan_pc = "idle" /\ start_at = NotCalled /\ scan_col = 0
    /\ scan_headers = <<>> /\ scan_row_num = 0 /\ scan_rows = <<>>

FormIdle == served = <<>>

addrVars == <<address, parsed>>
formVars == <<served>>
scanVars == <<scan_pc, start_at, scan_col, scan_headers, scan_row_num, scan_rows>>
detailVars == <<table, detail_data>>
replaceVars == <<raw_value, replace_prop, replaced>>
zipVars == <<header_content, detail_content, result, now, archive>>
loadVars == <<config, request, workbook, responses>>
frameVars == <<heap, header_ref, detail_refs>>
concVars == <<threads, frames>>
deskVars == <<selected_source, selected_file, missing_props, field_widgets,
              data_loaded, disk, status, event>>
expandVars == <<template, props, expanded>>
genVars == <<spec, separator, records, resolved, values, content>>
headerVars == <<source, result_header, sheet, header_data, missing>>

-----------------------------------------------------------------------------
(* Specification SpecAddr: parse_cell_address on every short address *)

InitAddr ==
    /\ pc = "parse"
    /\ address \in Strings(AddrChars, MaxAddrLen)
    /\ parsed = NotCalled
    /\ ExpandIdle /\ GenIdle /\ HeaderIdle
    /\ DetailIdle
    /\ ReplaceIdle
    /\ ZipIdle
    /\ LoadIdle
    /\ FrameIdle
    /\ ConcIdle
    /\ DeskIdle
    /\ ScanIdle
    /\ FormIdle

ParseCellAddressCall ==
    /\ pc = "parse"
    /\ parsed' = ParseCellAddress(address)
    /\ pc' = "parsed"
    /\ UNCHANGED <<address, expandVars, genVars, headerVars, detailVars,
                   replaceVars, zipVars, loadVars, frameVars, concVars,
                   deskVars, scanVars, formVars>>

NextAddr == ParseCellAddressCall

SpecAddr == InitAddr /\ [][NextAddr]_vars

-----------------------------------------------------------------------------
(* Specification SpecExpand: expand on short templates and small field maps *)

InitExpand ==
    /\ pc = "expand"
    /\ template \in Templates
    /\ props \in ExpandProps
    /\ expanded = NotCalled
    /\ AddrIdle /\ GenIdle /\ HeaderIdle
    /\ DetailIdle
    /\ ReplaceIdle
    /\ ZipIdle
    /\ LoadIdle
    /\ FrameIdle
    /\ ConcIdle
    /\ DeskIdle
    /\ ScanIdle
    /\ FormIdle

ExpandCall ==
    /\ pc = "expand"
    /\ expanded' = Expand(template, props)
    /\ pc' = "expanded"
    /\ UNCHANGED <<template, props, addrVars, genVars, headerVars, detailVars,
                   replaceVars, zipVars, loadVars, frameVars, concVars,
                   deskVars, scanVars, formVars>>

NextExpand == ExpandCall

SpecExpand == InitExpand /\ [][NextExpand]_vars

-----------------------------------------------------------------------------
(* Specification SpecGen: generate_content on small FileSpecs and records *)

InitGen ==
    /\ pc = "generate"
    /\ \E pl \in PropertyLists, pro \in Prologs, epi \in Epilogs :
          spec = FileSpec(<<"f">>, pl, pro, epi)
    /\ separator \in Separators
    /\ records \in Strings(RecordChoices, MaxRecords)
    /\ resolved = NotCalled /\ values = NotCalled /\ content = NotCalled
    /\ AddrIdle /\ ExpandIdle /\ HeaderIdle
    /\ DetailIdle
    /\ ReplaceIdle
    /\ ZipIdle
    /\ LoadIdle
    /\ FrameIdle
    /\ ConcIdle
    /\ DeskIdle
    /\ ScanIdle
    /\ FormIdle

\* One call of generate_content.  resolved and values record, per record and
\* property, the value before and after placeholder expansion.
GenerateContentCall ==
    /\ pc = "generate"
    /\ resolved' = [i \in 1..Len(records) |->
                      [j \in 1..Len(spec.properties) |->
                          ResolveValue(records[i], spec.properties[j])]]
    /\ values' = [i \in 1..Len(records) |->
                    [j \in 1..Len(spec.properties) |->
                        FieldValue(records[i], spec.properties[j], i - 1)]]
    /\ content' = GenerateContent(spec, separator, records)
    /\ pc' = "generated"
    /\ UNCHANGED <<spec, separator, records, addrVars, expandVars, headerVars,
                   detailVars, replaceVars, zipVars, loadVars, frameVars,
                   concVars, deskVars, scanVars, formVars>>

NextGen == GenerateContentCall

SpecGen == InitGen /\ [][NextGen]_vars

-----------------------------------------------------------------------------
(* Specification SpecHeader: the header pipeline of one conversion:
   missing_properties, extract_header, then generate_content over the one
   header record *)

InitHeader ==
    /\ pc = "start"
    /\ \E ha \in HeaderOfA, hb \in HeaderOfB,
          da \in SourceDefaultsOfA, db \in SourceDefaultsOfB :
          source = Source(<<"s">>, 0, ha \o hb, NoDetail, da \o db)
    /\ \E pl \in HeaderPropertyLists :
          result_header = FileSpec(<<"h">>, pl, <<>>, <<>>)
    /\ \E a1 \in CellsA1, b1 \in CellsB1 :
          sheet = (<<1, 1>> :> a1) @@ (<<1, 2>> :> b1)
    /\ separator \in Separators
    /\ header_data = NotCalled /\ missing = NotCalled
    /\ spec = NotCalled /\ records = <<>>
    /\ resolved = NotCalled /\ values = NotCalled /\ content = NotCalled
    /\ AddrIdle /\ ExpandIdle
    /\ DetailIdle
    /\ ReplaceIdle
    /\ ZipIdle
    /\ LoadIdle
    /\ FrameIdle
    /\ ConcIdle
    /\ DeskIdle
    /\ ScanIdle
    /\ FormIdle

MissingPropertiesCall ==
    /\ pc = "start"
    /\ missing' = MissingProperties(source, result_header)
    /\ pc' = "ready"
    /\ UNCHANGED <<source, result_header, sheet, header_data, addrVars,
                   expandVars, genVars, detailVars, replaceVars, zipVars,
                   loadVars, frameVars, concVars, deskVars, scanVars,
                   formVars>>

\* extract_header returns a record or raises; a raised error ends the
\* conversion.  header_data holds Returned(record) or ValueError.
ExtractHeaderCall ==
    /\ pc = "ready"
    /\ header_data' = ExtractHeader(sheet, source, result_header)
    /\ pc' = IF header_data' = ValueError THEN "failed" ELSE "extracted"
    /\ UNCHANGED <<source, result_header, sheet, missing, addrVars,
                   expandVars, genVars, detailVars, replaceVars, zipVars,
                   loadVars, frameVars, concVars, deskVars, scanVars,
                   formVars>>

\* generate_content(config.result.header, config.result.separator,
\* [header_data])
GenerateHeaderCall ==
    /\ pc = "extracted"
    /\ spec' = result_header
    /\ records' = <<header_data.value>>
    /\ resolved' = << [j \in 1..Len(result_header.properties) |->
                          ResolveValue(header_data.value,
                                       result_header.properties[j])] >>
    /\ values' = << [j \in 1..Len(result_header.properties) |->
                        FieldValue(header_data.value,
                                   result_header.properties[j], 0)] >>
    /\ content' = GenerateContent(result_header, separator, <<header_data.value>>)
    /\ pc' = "generated"
    /\ UNCHANGED <<separator, headerVars, addrVars, expandVars, detailVars,
                   replaceVars, zipVars, loadVars, frameVars, concVars,
                   deskVars, scanVars, formVars>>

NextHeader == MissingPropertiesCall \/ ExtractHeaderCall \/ GenerateHeaderCall

SpecHeader == InitHeader /\ [][NextHeader]_vars

-----------------------------------------------------------------------------
(* Specification SpecDetail: read_table over the detail table of a worksheet,
   then extract_detail *)

InitDetail ==
    /\ pc = "start"
    /\ \E loc \in DetailLocators, ps \in DetailPropertyLists, ev \in EndValues :
          source = Source(<<"s">>, 0, <<>>, DetailConfig(loc, ps, ev), <<>>)
    /\ sheet \in TableSheets
    /\ result_header = NotCalled /\ header_data = NotCalled
    /\ missing = NotCalled
    /\ AddrIdle /\ ExpandIdle /\ GenIdle
    /\ DetailIdle
    /\ ReplaceIdle
    /\ ZipIdle
    /\ LoadIdle
    /\ FrameIdle
    /\ ConcIdle
    /\ DeskIdle
    /\ ScanIdle
    /\ FormIdle

\* read_table(sheet, source.detail.locator, source.detail.end_value); table
\* holds the rows returned and the headers scanned, or ValueError.
ReadTableCall ==
    /\ pc = "start"
    /\ table' = ReadTableScan(sheet, source.detail.locator,
                              source.detail.end_value)
    /\ pc' = "read"
    /\ UNCHANGED <<detail_data, addrVars, expandVars, genVars, headerVars,
                   replaceVars, zipVars, loadVars, frameVars, concVars,
                   deskVars, scanVars, formVars>>

\* extract_detail(sheet, source); detail_data holds Returned(records) or
\* ValueError.
ExtractDetailCall ==
    /\ pc = "read"
    /\ detail_data' = ExtractDetail(sheet, source)
    /\ pc' = IF detail_data' = ValueError THEN "failed" ELSE "detailed"
    /\ UNCHANGED <<table, addrVars, expandVars, genVars, headerVars, replaceVars,
                   zipVars, loadVars, frameVars, concVars, deskVars,
                   scanVars, formVars>>

NextDetail == ReadTableCall \/ ExtractDetailCall

SpecDetail == InitDetail /\ [][NextDetail]_vars

-----------------------------------------------------------------------------
(* Specification SpecReplace: apply_replacements on short values and chains
   of at most two replacements *)

InitReplace ==
    /\ pc = "replace"
    /\ raw_value \in Strings(ValueChars, MaxValueLen)
    /\ \E chain \in ReplacementChains :
          replace_prop = SourceProperty(<<"x">>, <<"A", "1">>, chain)
    /\ replaced = NotCalled
    /\ AddrIdle /\ ExpandIdle /\ GenIdle /\ HeaderIdle /\ DetailIdle
    /\ ZipIdle
    /\ LoadIdle
    /\ FrameIdle
    /\ ConcIdle
    /\ DeskIdle
    /\ ScanIdle
    /\ FormIdle

ApplyReplacementsCall ==
    /\ pc = "replace"
    /\ replaced' = ApplyReplacements(raw_value, replace_prop)
    /\ pc' = "replaced"
    /\ UNCHANGED <<raw_value, replace_prop, addrVars, expandVars, genVars, headerVars,
                   detailVars, zipVars, loadVars, frameVars, concVars,
                   deskVars, scanVars, formVars>>

NextReplace == ApplyReplacementsCall

SpecReplace == InitReplace /\ [][NextReplace]_vars

-----------------------------------------------------------------------------
(* Specification SpecZip: create_zip on small contents and filenames, while
   the clock runs *)

InitZip ==
    /\ pc = "zip"
    /\ header_content \in ZipContents
    /\ detail_content \in ZipContents
    /\ \E hf \in ZipFilenames, df \in ZipFilenames :
          result = ResultConfig(<<";">>, <<"b">>, FileSpec(hf, <<>>, <<>>, <<>>),
                                FileSpec(df, <<>>, <<>>, <<>>))
    /\ now = 0
    /\ archive = NotCalled
    /\ AddrIdle /\ ExpandIdle /\ GenIdle /\ HeaderIdle /\ DetailIdle
    /\ ReplaceIdle
    /\ LoadIdle
    /\ FrameIdle
    /\ ConcIdle
    /\ DeskIdle
    /\ ScanIdle
    /\ FormIdle

\* A second passes.
Tick ==
    /\ now < MaxTicks
    /\ now' = now + 1
    /\ UNCHANGED <<pc, header_content, detail_content, result, archive,
                   addrVars, expandVars, genVars, headerVars, detailVars,
                   replaceVars, loadVars, frameVars, concVars, deskVars,
                   scanVars, formVars>>

CreateZipCall ==
    /\ pc = "zip"
    /\ \E build \in ZipBuilds :
          archive' = CreateZip(header_content, detail_content, result, now, build)
    /\ pc' = "zipped"
    /\ UNCHANGED <<header_content, detail_content, result, now, addrVars,
                   expandVars, genVars, headerVars, detailVars, replaceVars,
                   loadVars, frameVars, concVars, deskVars, scanVars,
                   formVars>>

NextZip == Tick \/ CreateZipCall

SpecZip == InitZip /\ [][NextZip]_vars

-----------------------------------------------------------------------------
(* Specification SpecLoad: the web application serving the same POST /load
   request again and again, while the clock runs *)

InitLoad ==
    /\ pc = "serving"
    /\ \E input \in LoadInputs :
          config = input[1] /\ request = input[2]
    /\ workbook \in {<<sh>> : sh \in LoadSheets}
    /\ responses = <<>>
    /\ now = 0
    /\ header_content = <<>> /\ detail_content = <<>> /\ result = NotCalled
    /\ archive = NotCalled
    /\ AddrIdle /\ ExpandIdle /\ GenIdle /\ HeaderIdle /\ DetailIdle
    /\ ReplaceIdle
    /\ FrameIdle
    /\ ConcIdle
    /\ DeskIdle
    /\ ScanIdle
    /\ FormIdle

\* A second passes between or before requests.
LoadTick ==
    /\ pc = "serving"
    /\ now < MaxTicks
    /\ now' = now + 1
    /\ UNCHANGED <<pc, header_content, detail_content, result, archive,
                   addrVars, expandVars, genVars, headerVars, detailVars,
                   replaceVars, loadVars, frameVars, concVars, deskVars,
                   scanVars, formVars>>

\* POST /load is served: load() runs from the request to its response.
LoadCall ==
    /\ pc = "serving"
    /\ Len(responses) < MaxRuns
    /\ \E build \in ZipBuilds :
          responses' = Append(responses,
                              Load(config, request, workbook, now, build))
    /\ UNCHANGED <<pc, config, request, workbook, zipVars, addrVars,
                   expandVars, genVars, headerVars, detailVars, replaceVars,
                   frameVars, concVars, deskVars, scanVars, formVars>>

NextLoad == LoadTick \/ LoadCall

SpecLoad == InitLoad /\ [][NextLoad]_vars

-----------------------------------------------------------------------------
(* Specification SpecFrame: conversions run one after another on the same
   configuration, with every dict an object of the heap *)

InitFrame ==
    /\ pc = "start"
    /\ \E src \in FrameSources, res \in FrameResults :
          /\ config = Config(<<src>>, res)
          /\ heap = ConfigObjects(src)
    /\ \E form \in FrameForms : request = [form |-> form, file |-> NoFile]
    /\ workbook \in {<<sh>> : sh \in FrameSheets}
    /\ responses = <<>>
    /\ header_ref = 0 /\ detail_refs = <<>>
    /\ source = NotCalled /\ result_header = NotCalled /\ sheet = NotCalled
    /\ header_data = NotCalled /\ missing = NotCalled
    /\ spec = NotCalled /\ separator = <<>> /\ records = <<>>
    /\ resolved = NotCalled /\ values = NotCalled /\ content = NotCalled
    /\ AddrIdle /\ ExpandIdle /\ DetailIdle /\ ReplaceIdle /\ ZipIdle
    /\ ConcIdle
    /\ DeskIdle
    /\ ScanIdle
    /\ FormIdle

\* missing_properties(source, config.result.header)
FrameMissingCall ==
    /\ pc = "start"
    /\ missing' = MissingProperties(LiveSource(heap, config.sources[1]),
                                    config.result.header)
    /\ pc' = "ready"
    /\ UNCHANGED <<source, result_header, sheet, header_data, addrVars,
                   expandVars, genVars, detailVars, replaceVars, zipVars,
                   loadVars, frameVars, concVars, deskVars, scanVars,
                   formVars>>

\* header_data = extract_header(sheet, source, config.result.header)
FrameExtractHeaderCall ==
    /\ pc = "ready"
    /\ LET r == ExtractHeader(workbook[1],
                              LiveSource(heap, config.sources[1]),
                              config.result.header)
       IN  IF r = ValueError
           THEN pc' = "failed" /\ UNCHANGED <<heap, header_ref, concVars, deskVars, scanVars, formVars>>
           ELSE /\ pc' = "header"
                /\ header_ref' = ExtractHeaderData(heap)
                /\ heap' = Store(heap, header_ref', r.value)
    /\ UNCHANGED <<detail_refs, headerVars, addrVars, expandVars, genVars,
                   detailVars, replaceVars, zipVars, loadVars, concVars,
                   deskVars, scanVars, formVars>>

\* detail_data = extract_detail(sheet, source)
FrameExtractDetailCall ==
    /\ pc = "header"
    /\ LET r == ExtractDetail(workbook[1], LiveSource(heap, config.sources[1]))
       IN  IF r = ValueError
           THEN pc' = "failed" /\ UNCHANGED <<heap, detail_refs, concVars, deskVars, scanVars, formVars>>
           ELSE /\ pc' = "detail"
                /\ heap' = StoreAll(heap, r.value)
                /\ detail_refs' = [i \in 1..Len(r.value) |-> Len(heap) + i]
    /\ UNCHANGED <<header_ref, headerVars, addrVars, expandVars, genVars,
                   detailVars, replaceVars, zipVars, loadVars, concVars,
                   deskVars, scanVars, formVars>>

\* The caller writes the user's fields and sourceName into the header record.
FrameMergeCall ==
    /\ pc = "detail"
    /\ heap' = [heap EXCEPT ![header_ref] =
                   DictSet(AddUserFields(heap[header_ref], missing,
                                         request.form),
                           SourceNameKey, config.sources[1].name)]
    /\ pc' = "merged"
    /\ UNCHANGED <<header_ref, detail_refs, headerVars, addrVars, expandVars,
                   genVars, detailVars, replaceVars, zipVars, loadVars,
                   concVars, deskVars, scanVars, formVars>>

\* generate_content for the header file, then for the detail file; records
\* keeps the records as they were handed over.
FrameGenerateCall ==
    /\ pc = "merged"
    /\ records' = <<heap[header_ref]>>
                  \o [i \in 1..Len(detail_refs) |-> heap[detail_refs[i]]]
    /\ header_content' = GenerateContent(config.result.header,
                                         config.result.separator,
                                         <<heap[header_ref]>>)
    /\ detail_content' = GenerateContent(config.result.detail,
                                         config.result.separator,
                                         [i \in 1..Len(detail_refs) |->
                                             heap[detail_refs[i]]])
    /\ heap' = GenerateRecords(
                   GenerateRecords(heap, config.result.header,
                                   <<header_ref>>, 0),
                   config.result.detail, detail_refs, 0)
    /\ pc' = "generated"
    /\ UNCHANGED <<header_ref, detail_refs, spec, separator, resolved, values,
                   content, result, now, archive, headerVars, addrVars,
                   expandVars, detailVars, replaceVars, loadVars, concVars,
                   deskVars, scanVars, formVars>>

\* create_zip(header_content, detail_content, config.result)
FrameCreateZipCall ==
    /\ pc = "generated"
    /\ \E build \in ZipBuilds :
          archive' = CreateZip(header_content, detail_content, config.result,
                               now, build)
    /\ pc' = "zipped"
    /\ UNCHANGED <<header_content, detail_content, result, now, headerVars,
                   addrVars, expandVars, genVars, detailVars, replaceVars,
                   loadVars, frameVars, concVars, deskVars, scanVars,
                   formVars>>

\* The next conversion starts: the records of the last one are let go.
FrameAgain ==
    /\ pc \in {"zipped", "failed"}
    /\ Len(heap) < MaxObjects
    /\ pc' = "ready"
    /\ header_ref' = 0 /\ detail_refs' = <<>>
    /\ UNCHANGED <<heap, headerVars, addrVars, expandVars, genVars,
                   detailVars, replaceVars, zipVars, loadVars, concVars,
                   deskVars, scanVars, formVars>>

NextFrame ==
    \/ FrameMissingCall \/ FrameExtractHeaderCall \/ FrameExtractDetailCall
    \/ FrameMergeCall \/ FrameGenerateCall \/ FrameCreateZipCall
    \/ FrameAgain

SpecFrame == InitFrame /\ [][NextFrame]_vars

-----------------------------------------------------------------------------
(* Specification SpecConc: the web application serving two POST /load
   requests in two threads whose steps interleave, while the clock runs *)

InitConc ==
    /\ pc = "serving"
    /\ config = ConcConfig
    /\ \E r1 \in ConcRequests, r2 \in ConcRequests,
          w1 \in ConcWorkbooks, w2 \in ConcWorkbooks :
          threads = <<Thread(r1, w1), Thread(r2, w2)>>
    /\ frames = <<NoLocals, NoLocals>>
    /\ request = NotCalled /\ workbook = <<>> /\ responses = <<>>
    /\ now = 0
    /\ header_content = <<>> /\ detail_content = <<>> /\ result = NotCalled
    /\ archive = NotCalled
    /\ AddrIdle /\ ExpandIdle /\ GenIdle /\ HeaderIdle /\ DetailIdle
    /\ ReplaceIdle /\ FrameIdle
    /\ DeskIdle
    /\ ScanIdle
    /\ FormIdle

\* Thread i takes a step while the other thread is inside load().
Overlaps(i) ==
    \/ threads[i].overlapped
    \/ \E j \in 1..Len(threads) :
          j /= i /\ threads[j].pc \in {"extracted", "merged", "generated"}

\* Thread i returns rsp.
Respond(i, rsp) ==
    threads' = [threads EXCEPT ![i].pc = "done", ![i].response = rsp,
                               ![i].overlapped = Overlaps(i)]

\* Thread i goes on to the step at.
GoOn(i, at) ==
    threads' = [threads EXCEPT ![i].pc = at, ![i].overlapped = Overlaps(i)]

\* load() from the checks of the request to the extraction.
ConcBegin ==
    \E i \in 1..Len(threads) :
        /\ threads[i].pc = "begin"
        /\ LET req == threads[i].request
               wb == threads[i].workbook
               early == LoadBeginResponse(config, req, wb)
           IN  IF early /= NotCalled
               THEN Respond(i, early) /\ UNCHANGED frames
               ELSE LET h == ExtractHeader(RequestSheet(config, req, wb),
                                           RequestSource(config, req),
                                           config.result.header)
                        d == ExtractDetail(RequestSheet(config, req, wb),
                                           RequestSource(config, req))
                    IN  IF h = ValueError \/ d = ValueError
                        THEN /\ Respond(i, ErrorPage("extractionError"))
                             /\ UNCHANGED frames
                        ELSE /\ GoOn(i, "extracted")
                             /\ frames' =
                                    [frames EXCEPT
                                        ![FrameOf(i)].header_data = h.value,
                                        ![FrameOf(i)].detail_data = d.value]
        /\ UNCHANGED <<pc, config, request, workbook, responses, zipVars,
                       addrVars, expandVars, genVars, headerVars, detailVars,
                       replaceVars, frameVars, deskVars,
                   scanVars, formVars>>

\* load(): add user-provided fields and sourceName.
ConcMerge ==
    \E i \in 1..Len(threads) :
        /\ threads[i].pc = "extracted"
        /\ LET src == RequestSource(config, threads[i].request)
           IN  frames' =
                   [frames EXCEPT ![FrameOf(i)].header_data =
                       DictSet(AddUserFields(
                                   frames[FrameOf(i)].header_data,
                                   MissingProperties(src, config.result.header),
                                   threads[i].request.form),
                               SourceNameKey, src.name)]
        /\ GoOn(i, "merged")
        /\ UNCHANGED <<pc, config, request, workbook, responses, zipVars,
                       addrVars, expandVars, genVars, headerVars, detailVars,
                       replaceVars, frameVars, deskVars,
                   scanVars, formVars>>

\* load(): generate content.
ConcGenerate ==
    \E i \in 1..Len(threads) :
        /\ threads[i].pc = "merged"
        /\ frames' =
               [frames EXCEPT
                   ![FrameOf(i)].header_content =
                       GenerateContent(config.result.header,
                                       config.result.separator,
                                       <<frames[FrameOf(i)].header_data>>),
                   ![FrameOf(i)].detail_content =
                       GenerateContent(config.result.detail,
                                       config.result.separator,
                                       frames[FrameOf(i)].detail_data)]
        /\ GoOn(i, "generated")
        /\ UNCHANGED <<pc, config, request, workbook, responses, zipVars,
                       addrVars, expandVars, genVars, headerVars, detailVars,
                       replaceVars, frameVars, deskVars,
                   scanVars, formVars>>

\* load(): create ZIP and send the file; the thread keeps the clock reading
\* and the build its archive was made with.
ConcZip ==
    \E i \in 1..Len(threads), build \in ZipBuilds :
        /\ threads[i].pc = "generated"
        /\ threads' =
               [threads EXCEPT
                   ![i].pc = "done",
                   ![i].time = now,
                   ![i].build = build,
                   ![i].overlapped = Overlaps(i),
                   ![i].response =
                       SendFile(CreateZip(frames[FrameOf(i)].header_content,
                                          frames[FrameOf(i)].detail_content,
                                          config.result, now, build),
                                Expand(config.result.base_name,
                                       frames[FrameOf(i)].header_data)
                                    \o ZipSuffix,
                                frames[FrameOf(i)].header_data,
                                frames[FrameOf(i)].detail_data)]
        /\ UNCHANGED <<pc, config, request, workbook, responses, zipVars,
                       frames, addrVars, expandVars, genVars, headerVars,
                       detailVars, replaceVars, frameVars, deskVars,
                   scanVars, formVars>>

\* A second passes.
ConcTick ==
    /\ pc = "serving"
    /\ now < MaxTicks
    /\ now' = now + 1
    /\ UNCHANGED <<pc, header_content, detail_content, result, archive,
                   addrVars, expandVars, genVars, headerVars, detailVars,
                   replaceVars, loadVars, frameVars, concVars, deskVars,
                   scanVars, formVars>>

NextConc == ConcBegin \/ ConcMerge \/ ConcGenerate \/ ConcZip \/ ConcTick

SpecConc == InitConc /\ [][NextConc]_vars

-----------------------------------------------------------------------------
(* Specification SpecDesktop: the desktop shell handling the user's events,
   each handler run from its first line to its return *)

Handled(handler, outcome) ==
    [handler |-> handler, outcome |-> outcome, loaded_before |-> data_loaded]

InitDesktop ==
    /\ pc = "running"
    /\ config \in DeskConfigs
    /\ selected_source = NoSource /\ selected_file = None
    /\ missing_props = <<>> /\ field_widgets = <<>> /\ data_loaded = FALSE
    /\ header_data = <<>> /\ detail_data = <<>>
    /\ disk = <<>> /\ status = "" /\ event = [handler |-> "init",
                                              outcome |-> "started",
                                              loaded_before |-> FALSE]
    /\ request = NotCalled /\ workbook = <<>> /\ responses = <<>>
    /\ source = NotCalled /\ result_header = NotCalled /\ sheet = NotCalled
    /\ missing = NotCalled /\ table = NotCalled
    /\ AddrIdle /\ ExpandIdle /\ GenIdle /\ ReplaceIdle /\ ZipIdle
    /\ FrameIdle /\ ConcIdle
    /\ ScanIdle
    /\ FormIdle

ResetKeepingData ==
    /\ data_loaded' = FALSE
    /\ selected_file' = None
    /\ UNCHANGED <<header_data, detail_data>>

\* _reset_to_file_picker
ResetToFilePicker ==
    /\ data_loaded' = FALSE
    /\ selected_file' = None
    /\ header_data' = <<>>
    /\ detail_data' = <<>>

\* _on_source_selected: the user picks the k-th description of the dropdown.
\* When the source's logo cannot be read as an image the handler ends there,
\* after the reset and before the form is rebuilt.
OnSourceSelected ==
    \E k \in 1..Len(config.sources) :
        LET chosen == FirstByDescription(config.sources,
                                         config.sources[k].description)
        IN  \E loads \in chosen.logo_loads :
                /\ selected_source' = chosen
                /\ ResetToFilePicker
                /\ IF loads
                   THEN /\ missing_props' =
                               MissingProperties(chosen, config.result.header)
                        /\ field_widgets' = NewWidgets(<<>>, missing_props')
                   ELSE /\ missing_props' = missing_props
                        /\ field_widgets' = <<>>
                /\ event' = Handled("source",
                                    IF loads THEN "selected" ELSE "logo error")
                /\ UNCHANGED <<pc, disk, status, source, result_header, sheet,
                               missing, table, addrVars, expandVars, genVars,
                               replaceVars, zipVars, loadVars, frameVars,
                               concVars, scanVars, formVars>>

\* The user types into one of the form's fields.
EditField ==
    \E i \in 1..Len(field_widgets), text \in FieldTexts :
        /\ field_widgets' = DictSet(field_widgets, field_widgets[i][1], text)
        /\ event' = Handled("edit", "typed")
        /\ UNCHANGED <<pc, selected_source, selected_file, missing_props,
                       data_loaded, disk, status, headerVars, detailVars,
                       addrVars, expandVars, genVars, replaceVars, zipVars,
                       loadVars, frameVars, concVars, scanVars, formVars>>

\* _load_and_preview after its guard: the datasets, or an error.
LoadAndPreview(path, src, fs) ==
    LET wb == LoadWorkbook(path)
    IN  IF wb = ValueError THEN ValueError
        ELSE LET picked == ListIndex(wb.value, src.sheet_index)
             IN  IF picked = IndexError THEN IndexError
                 ELSE LET h == ExtractHeader(picked.value, src, fs)
                          d == ExtractDetail(picked.value, src)
                      IN  IF h = ValueError \/ d = ValueError
                          THEN ValueError
                          ELSE Returned([header_data |-> h.value,
                                         detail_data |-> d.value])

\* _on_action_click in file-picker mode: _pick_file and _load_and_preview.
PickFile ==
    /\ ~ExportMode(data_loaded)
    /\ \E path \in PickPaths \cup {<<>>} :
          IF path = <<>>
          THEN /\ event' = Handled("pick", "cancelled")
               /\ UNCHANGED <<selected_file, data_loaded, header_data,
                              detail_data, status>>
          ELSE IF selected_source = NoSource
          THEN /\ selected_file' = path
               /\ event' = Handled("pick", "no source")
               /\ UNCHANGED <<data_loaded, header_data, detail_data, status>>
          ELSE LET loaded == LoadAndPreview(path, selected_source,
                                            config.result.header)
               IN  IF loaded \in {ValueError, IndexError}
                   THEN /\ status' = "Load error"
                        /\ ResetToFilePicker
                        /\ event' = Handled("pick", "load error")
                   ELSE /\ selected_file' = path
                        /\ header_data' = loaded.value.header_data
                        /\ detail_data' = loaded.value.detail_data
                        /\ data_loaded' = TRUE
                        /\ status' = "Loaded"
                        /\ event' = Handled("pick", "loaded")
    /\ UNCHANGED <<pc, selected_source, missing_props, field_widgets, disk,
                   source, result_header, sheet, missing, table, addrVars,
                   expandVars, genVars, replaceVars, zipVars, loadVars,
                   frameVars, concVars, scanVars, formVars>>

\* _export up to the save dialog: the header record as the merge left it,
\* and the archive, or raised when one of the steps raised.
ExportArchive(data, detail, src, missing_list, widgets, rc, t, build) ==
    LET merged == MergeWidgets(data, missing_list, widgets)
    IN  IF merged.raised \/ src = NoSource
        THEN [data |-> merged.data, raised |-> TRUE, zip_bytes |-> <<>>]
        ELSE LET named == DictSet(merged.data, SourceNameKey, src.name)
                 zipped == CreateZip(
                               GenerateContent(rc.header, rc.separator,
                                               <<named>>),
                               GenerateContent(rc.detail, rc.separator,
                                               detail),
                               rc, t, build)
             IN  IF zipped = IndexError
                 THEN [data |-> named, raised |-> TRUE, zip_bytes |-> <<>>]
                 ELSE [data |-> named, raised |-> FALSE,
                       zip_bytes |-> zipped.value]

\* _on_action_click in export mode: _export.
Export ==
    /\ ExportMode(data_loaded)
    /\ \E build \in ZipBuilds, out \in {<<>>, PathOut},
          outcome \in WriteOutcomes :
          LET made == ExportArchive(header_data, detail_data, selected_source,
                                    missing_props, field_widgets,
                                    config.result, now, build)
          IN  IF made.raised
              THEN /\ header_data' = made.data
                   /\ status' = "Export error"
                   /\ event' = Handled("export", "error")
                   /\ UNCHANGED <<selected_file, data_loaded, detail_data, disk>>
              ELSE IF out = <<>>
              THEN /\ header_data' = made.data
                   /\ status' = "Cancelled"
                   /\ event' = Handled("export", "cancelled")
                   /\ UNCHANGED <<selected_file, data_loaded, detail_data, disk>>
              ELSE /\ disk' = WriteBytes(disk, out, made.zip_bytes, outcome)
                   /\ IF outcome = "written"
                      THEN /\ status' = "Saved"
                           /\ ResetToFilePicker
                           /\ event' = Handled("export", "saved")
                      ELSE /\ header_data' = made.data
                           /\ status' = "Export error"
                           /\ event' = Handled("export", "error")
                           /\ UNCHANGED <<selected_file, data_loaded,
                                          detail_data>>
    /\ UNCHANGED <<pc, selected_source, missing_props, field_widgets, source,
                   result_header, sheet, missing, table, addrVars, expandVars,
                   genVars, replaceVars, zipVars, loadVars, frameVars,
                   concVars, scanVars, formVars>>

NextDesktop == OnSourceSelected \/ EditField \/ PickFile \/ Export

SpecDesktop == InitDesktop /\ [][NextDesktop]_vars

-----------------------------------------------------------------------------
(* Specification SpecScan: read_table one loop iteration at a time, over the
   worksheets of SpecDetail; every cell beyond the last row and the second
   column of a worksheet is empty *)

\* start_address: A1, b1, a malformed address, and A0, which
\* parse_cell_address accepts with row 0.
ScanLocators == DetailLocators \cup {<<"A", "0">>}

InitScan ==
    /\ pc = "start"
    /\ \E loc \in ScanLocators, ev \in EndValues :
          source = Source(<<"s">>, 0, <<>>, DetailConfig(loc, <<>>, ev), <<>>)
    /\ sheet \in TableSheets
    /\ result_header = NotCalled /\ header_data = NotCalled
    /\ missing = NotCalled
    /\ ScanIdle
    /\ AddrIdle /\ ExpandIdle /\ GenIdle /\ DetailIdle /\ ReplaceIdle
    /\ ZipIdle /\ LoadIdle /\ FrameIdle /\ ConcIdle /\ DeskIdle
    /\ FormIdle

\* start_row, start_col = parse_cell_address(start_address); headers = [];
\* col = start_col.
ScanBegin ==
    /\ pc = "start" /\ scan_pc = "idle"
    /\ start_at' = ParseCellAddress(source.detail.locator)
    /\ IF start_at' = ValueError
       THEN scan_pc' = "raised" /\ scan_col' = scan_col
       ELSE scan_pc' = "headers" /\ scan_col' = start_at'.col
    /\ UNCHANGED <<pc, scan_headers, scan_row_num, scan_rows, addrVars,
                   expandVars, genVars, headerVars, detailVars, replaceVars,
                   zipVars, loadVars, frameVars, concVars, deskVars,
                   formVars>>

\* One iteration of the header loop: the cell at (start_row, col) is read,
\* which raises for a row below 1; a blank text breaks the loop, and with no
\* header the call returns []; any other text is appended and col advances.
HeaderStep ==
    /\ scan_pc = "headers"
    /\ LET cell == SheetCell(sheet, start_at.row, scan_col)
       IN  IF cell = ValueError
           THEN /\ scan_pc' = "raised"
                /\ UNCHANGED <<scan_col, scan_headers, scan_row_num>>
           ELSE IF IsBlank(CellToString(cell))
           THEN /\ scan_pc' = IF scan_headers = <<>> THEN "returned"
                              ELSE "rows"
                /\ scan_row_num' = start_at.row + 1
                /\ UNCHANGED <<scan_col, scan_headers>>
           ELSE /\ scan_headers' = Append(scan_headers, CellToString(cell))
                /\ scan_col' = scan_col + 1
                /\ UNCHANGED <<scan_pc, scan_row_num>>
    /\ UNCHANGED <<pc, start_at, scan_rows, addrVars, expandVars, genVars,
                   headerVars, detailVars, replaceVars, zipVars, loadVars,
                   frameVars, concVars, deskVars, formVars>>

\* One iteration of the row loop: the stop test on the first cell of row_num
\* breaks the loop and the call returns rows; otherwise the row is appended
\* and row_num advances.
RowStep ==
    /\ scan_pc = "rows"
    /\ IF StopsAt(sheet, scan_row_num, start_at.col, source.detail.end_value)
       THEN /\ scan_pc' = "returned"
            /\ UNCHANGED <<scan_row_num, scan_rows>>
       ELSE /\ scan_rows' = Append(scan_rows,
                                   RowData(<<>>, sheet, scan_row_num,
                                           start_at.col, scan_headers, 0))
            /\ scan_row_num' = scan_row_num + 1
            /\ UNCHANGED scan_pc
    /\ UNCHANGED <<pc, start_at, scan_col, scan_headers, addrVars, expandVars,
                   genVars, headerVars, detailVars, replaceVars, zipVars,
                   loadVars, frameVars, concVars, deskVars, formVars>>

NextScan == ScanBegin \/ HeaderStep \/ RowStep

\* A call that has not returned or raised takes its next step.
SpecScan == InitScan /\ [][NextScan]_vars /\ WF_vars(NextScan)

-----------------------------------------------------------------------------
(* Specification SpecForms: the web application answering POST /load
   requests that carry the same workbook and different forms *)

InitForms ==
    /\ pc = "serving"
    /\ config \in FormConfigs
    /\ request = NotCalled
    /\ workbook \in {<<sh>> : sh \in LoadSheets}
    /\ responses = <<>> /\ served = <<>>
    /\ ZipIdle
    /\ AddrIdle /\ ExpandIdle /\ GenIdle /\ HeaderIdle /\ DetailIdle
    /\ ReplaceIdle /\ FrameIdle /\ ConcIdle /\ DeskIdle /\ ScanIdle

\* POST /load with one of the forms: load() runs from the request to its
\* response.
FormCall ==
    /\ pc = "serving"
    /\ Len(responses) < MaxRuns
    /\ \E form \in FormForms, build \in ZipBuilds :
          /\ request' = [form |-> form, file |-> FileStorage(<<"o">> \o Xlsx)]
          /\ responses' = Append(responses,
                                 Load(config, request', workbook, now, build))
          /\ served' = Append(served, request')
    /\ UNCHANGED <<pc, config, workbook, zipVars, addrVars, expandVars,
                   genVars, headerVars, detailVars, replaceVars, frameVars,
                   concVars, deskVars, scanVars>>

NextForms == FormCall

SpecForms == InitForms /\ [][NextForms]_vars

-----------------------------------------------------------------------------
(* Claims about parse_cell_address (SpecAddr) *)

\* The value of a column letter and of a decimal digit, by table.
LetterValue(c) ==
    CASE c \in {"A", "a"} -> 1 [] c \in {"B", "b"} -> 2 [] c \in {"Z", "z"} -> 26

DigitValue(c) == CASE c = "0" -> 0 [] c = "1" -> 1 [] c = "9" -> 9

AddrLetters == {"A", "B", "Z", "a", "b", "z"}
AddrDigits == {"0", "1", "9"}

\* The base-26 positional value of the letters s[i..]: the sum of
\* LetterValue(s[j]) * 26^(n-j).
RECURSIVE Base26Value(_, _)
Base26Value(s, i) ==
    IF i > Len(s) THEN 0
    ELSE LetterValue(s[i]) * 26 ^ (Len(s) - i) + Base26Value(s, i + 1)

\* The decimal value of the digits s[i..].
RECURSIVE DecimalValue(_, _)
DecimalValue(s, i) ==
    IF i > Len(s) THEN 0
    ELSE DigitValue(s[i]) * 10 ^ (Len(s) - i) + DecimalValue(s, i + 1)

\* a is k letters followed by one or more digits, and nothing else.
LettersThenDigits(a, k) ==
    /\ k \in 1..(Len(a) - 1)
    /\ \A i \in 1..k : a[i] \in AddrLetters
    /\ \A i \in (k + 1)..Len(a) : a[i] \in AddrDigits

WellFormedAddress(a) == \E k \in 1..Len(a) : LettersThenDigits(a, k)

\* a with the case of its i-th character swapped (a itself for a non-letter).
SwapCaseAt(a, i) ==
    [j \in 1..Len(a) |->
        IF j /= i THEN a[j]
        ELSE CASE a[j] = "A" -> "a" [] a[j] = "a" -> "A"
               [] a[j] = "B" -> "b" [] a[j] = "b" -> "B"
               [] a[j] = "Z" -> "z" [] a[j] = "z" -> "Z"
               [] OTHER -> a[j]]

\* C9: for letters L followed by digits D, parse_cell_address returns the row
\* that is the decimal value of D and the column that is the base-26 positional
\* value of L with A=1..Z=26 (A=1, Z=26, AA=27, AB=28, AZ=52, BA=53), and the
\* result does not change when the case of any letter is changed.
C9_ColumnBase26 ==
    (pc = "parsed" /\ WellFormedAddress(address)) =>
        /\ \A k \in 1..Len(address) :
              LettersThenDigits(address, k) =>
                parsed = [kind |-> "ok",
                          row  |-> DecimalValue(SubSeq(address, k + 1, Len(address)), 1),
                          col  |-> Base26Value(SubSeq(address, 1, k), 1)]
        /\ \A i \in 1..Len(address) :
              ParseCellAddress(SwapCaseAt(address, i)) = parsed
        /\ (address = <<"A", "1">> => parsed.col = 1)
        /\ (address = <<"Z", "1">> => parsed.col = 26)
        /\ (address = <<"A", "A", "1">> => parsed.col = 27)
        /\ (address = <<"A", "B", "1">> => parsed.col = 28)
        /\ (address = <<"A", "Z", "1">> => parsed.col = 52)
        /\ (address = <<"B", "A", "1">> => parsed.col = 53)

\* A lower-case two-letter address has been parsed.
C9_Witness ==
    /\ pc = "parsed"
    /\ address = <<"a", "z", "9">>
    /\ parsed = [kind |-> "ok", row |-> 9, col |-> 52]

\* C10: every string that is not, from first to last character, one or more
\* letters followed by one or more digits is rejected with an invalid-address
\* error and yields no coordinates.
C10_InvalidAddressRejected ==
    (pc = "parsed" /\ ~WellFormedAddress(address)) => parsed = ValueError

\* C11: for every address that parse_cell_address accepts, both coordinates
\* are 1-based: the row is at least 1 and the column is at least 1.
C11_CoordinatesOneBased ==
    (pc = "parsed" /\ parsed.kind = "ok") => (parsed.row >= 1 /\ parsed.col >= 1)

-----------------------------------------------------------------------------
(* Claims about expand (SpecExpand) *)

\* The word characters templates of the model hold.
TemplateWordChars == {"a", "b"}

\* t[i..j] is one placeholder: "${", one or more word characters, "}".
PlaceholderAt(t, i, j) ==
    /\ j >= i + 3
    /\ t[i] = "$"
    /\ t[i + 1] = "{"
    /\ t[j] = "}"
    /\ \A k \in (i + 2)..(j - 1) : t[k] \in TemplateWordChars

Placeholders(t) ==
    {m \in (1..Len(t)) \X (1..Len(t)) : PlaceholderAt(t, m[1], m[2])}

\* The string form of the value the field map holds for key, "" when absent.
FieldText(p, key) ==
    IF \E i \in 1..Len(p) : p[i][1] = key
    THEN LET v == p[CHOOSE i \in 1..Len(p) : p[i][1] = key][2]
         IN  IF v = PyInt(7) THEN <<"7">> ELSE v
    ELSE <<>>

\* C8: expand replaces every ${identifier} by the string form of
\* props[identifier], or by the empty string when the key is absent; all other
\* text is passed through unchanged, and the text a substitution introduces is
\* not scanned again.  Stated on the leftmost placeholder: the result is the
\* text before it, unchanged, then the field's text as it is, then the
\* expansion of the rest; a template without placeholder is returned as it is.
C8_ExpandSinglePass ==
    pc = "expanded" =>
        IF Placeholders(template) = {} THEN expanded = template
        ELSE LET m == CHOOSE m \in Placeholders(template) :
                        \A n \in Placeholders(template) : m[1] <= n[1]
                 key == SubSeq(template, m[1] + 2, m[2] - 1)
             IN  expanded = SubSeq(template, 1, m[1] - 1)
                                \o FieldText(props, key)
                                \o Expand(Drop(template, m[2] + 1), props)

\* The placeholder of the absent key b went to "", and the text "${b}" that
\* the value of a brought in was left as it is.
C8_Witness ==
    /\ pc = "expanded"
    /\ template = <<"$", "{", "a", "}", "$", "{", "b", "}">>
    /\ props = << << <<"a">>, <<"$", "{", "b", "}">> >> >>
    /\ expanded = <<"$", "{", "b", "}">>

-----------------------------------------------------------------------------
(* Claims about generate_content (SpecGen) *)

\* The record has the field and its value is not the empty string.
HasNonEmpty(record, name) ==
    \E k \in 1..Len(record) : record[k][1] = name /\ record[k][2] /= <<>>

ValueOf(record, name) ==
    record[CHOOSE k \in 1..Len(record) : record[k][1] = name][2]

\* C4: for every record and every property, the value before placeholder
\* expansion is the record's own value for the property's name if it is
\* present and non-empty, else the property's default value if it has one,
\* else the empty string.
C4_ResolvedValue ==
    pc = "generated" =>
        \A i \in 1..Len(records) : \A j \in 1..Len(spec.properties) :
            LET prop == spec.properties[j]
            IN  resolved[i][j] =
                    IF HasNonEmpty(records[i], prop.name)
                    THEN ValueOf(records[i], prop.name)
                    ELSE IF prop.default_value /= None THEN prop.default_value
                    ELSE <<>>

\* A record holds a with the empty string, a has the default "D", and the
\* value resolved for it is "D".
C4_Witness ==
    /\ pc = "generated"
    /\ spec.properties = <<ResultProperty(KeyA, "text", <<"D">>)>>
    /\ records = << << <<KeyA, <<>> >>, <<KeyB, <<"$", "{", "a", "}">> >> >> >>
    /\ resolved = << << <<"D">> >> >>

\* s split at every occurrence of the character c ("" gives one empty piece).
RECURSIVE SplitOn(_, _)
SplitOn(s, c) ==
    IF \A i \in 1..Len(s) : s[i] /= c THEN <<s>>
    ELSE LET i == CHOOSE i \in 1..Len(s) :
                     s[i] = c /\ \A k \in 1..(i - 1) : s[k] /= c
         IN  <<SubSeq(s, 1, i - 1)>> \o SplitOn(Drop(s, i + 1), c)

\* The number of lines emitted for a prolog or an epilog that is given.
GivenLines(text) == IF text = <<>> THEN 0 ELSE 1

\* C5: generate_content emits exactly one data line per record, in record
\* order; each data line is the values of spec.properties in the declared
\* order, whatever the key order of the record, joined by the separator; the
\* lines are joined by single newlines with no trailing newline, and no line
\* at all gives the empty string.  (No value, separator, prolog or epilog of
\* the model holds a newline, and no value holds the separator.)
C5_OneLinePerRecord ==
    pc = "generated" =>
        LET lines == SplitOn(content, "\n")
            before == GivenLines(spec.prolog)
            total == before + Len(records) + GivenLines(spec.epilog)
        IN  /\ total = 0 => content = <<>>
            /\ total > 0 => Len(lines) = total
            /\ \A i \in 1..Len(records) :
                  IF spec.properties = <<>> THEN lines[before + i] = <<>>
                  ELSE SplitOn(lines[before + i], separator[1]) = values[i]
            /\ (/\ spec.properties = <<ResultProperty(KeyA, "text", None),
                                        ResultProperty(KeyB, "text", None)>>
                 /\ spec.prolog = <<>> /\ spec.epilog = <<>>
                 /\ \A i \in 1..Len(records) :
                       /\ HasNonEmpty(records[i], KeyA)
                       /\ HasNonEmpty(records[i], KeyB)
                       /\ ValueOf(records[i], KeyA) = <<"1">>
                       /\ ValueOf(records[i], KeyB) = <<"2">>)
                => content = Join(<<"\n">>,
                                  [i \in 1..Len(records) |-> <<"1", ";", "2">>])

\* Two records holding the same fields in different key order gave the same
\* two lines, in the order the FileSpec declares.
C5_Witness ==
    /\ pc = "generated"
    /\ spec.properties = <<ResultProperty(KeyA, "text", None),
                           ResultProperty(KeyB, "text", None)>>
    /\ records = << << <<KeyA, <<"1">> >>, <<KeyB, <<"2">> >> >>,
                    << <<KeyB, <<"2">> >>, <<KeyA, <<"1">> >> >> >>
    /\ content = <<"1", ";", "2", "\n", "1", ";", "2">>

\* text without its trailing whitespace, for the prologs and epilogs of the
\* model.
Trimmed(text) ==
    CASE text = <<"H", " ">> -> <<"H">>
      [] text = <<" ">> -> <<>>
      [] OTHER -> text

\* C6: the trimmed prolog is the first line exactly when the trimmed prolog is
\* non-empty, the trimmed epilog the last line exactly when the trimmed epilog
\* is non-empty; otherwise no such line is emitted.
C6_PrologEpilogOnlyIfNonEmpty ==
    pc = "generated" =>
        LET lines == SplitOn(content, "\n")
            before == IF Trimmed(spec.prolog) /= <<>> THEN 1 ELSE 0
            after == IF Trimmed(spec.epilog) /= <<>> THEN 1 ELSE 0
            total == before + Len(records) + after
        IN  /\ total = 0 => content = <<>>
            /\ total > 0 => Len(lines) = total
            /\ (total > 0 /\ before = 1) => lines[1] = Trimmed(spec.prolog)
            /\ (total > 0 /\ after = 1) => lines[Len(lines)] = Trimmed(spec.epilog)

\* The decimal text of the positions 0, 1, 2, ...
PositionText == <<"0", "1", "2", "3", "4", "5", "6", "7", "8", "9">>

\* The record's own fields plus the field index holding the 0-based position.
FieldsWithIndex(record, position) ==
    SelectSeq(record, LAMBDA e : e[1] /= IndexKey)
        \o << <<IndexKey, <<"int", PositionText[position + 1]>> >> >>

\* C7: a resolved value goes through expand if and only if it holds "${"; the
\* expansion uses the record's own fields plus index, the record's 0-based
\* position, so a property with default "${index}" over records without that
\* field renders 0, 1, ..., n-1 in order.
C7_IndexExpansion ==
    pc = "generated" =>
        \A i \in 1..Len(records) : \A j \in 1..Len(spec.properties) :
            /\ values[i][j] =
                  IF \E k \in 1..(Len(resolved[i][j]) - 1) :
                        resolved[i][j][k] = "$" /\ resolved[i][j][k + 1] = "{"
                  THEN Expand(resolved[i][j], FieldsWithIndex(records[i], i - 1))
                  ELSE resolved[i][j]
            /\ (/\ spec.properties[j].default_value =
                        <<"$", "{", "i", "n", "d", "e", "x", "}">>
                 /\ ~HasNonEmpty(records[i], spec.properties[j].name))
                => values[i][j] = <<PositionText[i]>>

\* Two records without the field b, whose default is "${index}": 0 then 1.
C7_Witness ==
    /\ pc = "generated"
    /\ Len(records) = 2
    /\ spec.properties =
          <<ResultProperty(KeyB, "text", <<"$", "{", "i", "n", "d", "e", "x", "}">>)>>
    /\ \A i \in 1..2 : ~HasNonEmpty(records[i], KeyB)
    /\ values = << << <<"0">> >>, << <<"1">> >> >>
    /\ spec.prolog = <<>> /\ spec.epilog = <<>>
    /\ content = <<"0", "\n", "1">>

-----------------------------------------------------------------------------
(* Claims about the header pipeline (SpecHeader) *)

\* The names the source extracts, those its default_values hold, and those of
\* the header properties that define a non-empty default value.
HeaderNames == {source.header[i].name : i \in 1..Len(source.header)}

SourceDefaultKeys ==
    {source.default_values[i][1] : i \in 1..Len(source.default_values)}

DerivedDefaultKeys ==
    {result_header.properties[j].name : j \in
        {j \in 1..Len(result_header.properties) :
            /\ result_header.properties[j].default_value /= None
            /\ result_header.properties[j].default_value /= <<>>}}

\* The cell a well-formed locator of the model names.
CellAtLocator(locator) ==
    CASE locator = <<"A", "1">> -> sheet[<<1, 1>>]
      [] locator = <<"b", "1">> -> sheet[<<1, 2>>]

\* apply_replacements(cell_to_string(cell at locator)) of the header
\* SourceProperty of that name.
TransformedCell(name) ==
    LET prop == source.header[CHOOSE i \in 1..Len(source.header) :
                                 source.header[i].name = name]
    IN  ApplyReplacements(CellToString(CellAtLocator(prop.locator)), prop)

\* The default value of the header ResultProperty of that name.
ResultDefault(name) ==
    result_header.properties[CHOOSE j \in 1..Len(result_header.properties) :
                                result_header.properties[j].name = name].default_value

\* The value by presence alone: extracted, else source default, else the
\* property's own default, else "".
ByPresence(name) ==
    IF name \in HeaderNames THEN TransformedCell(name)
    ELSE IF name \in SourceDefaultKeys THEN ValueOf(source.default_values, name)
    ELSE IF ResultDefault(name) /= None THEN ResultDefault(name)
    ELSE <<>>

C2_ExtractHeaderLayers ==
    pc \in {"extracted", "generated"} =>
        /\ header_data.kind = "ok"
        /\ LET data == header_data.value
               keys == {data[i][1] : i \in 1..Len(data)}
           IN  /\ keys = HeaderNames \cup SourceDefaultKeys \cup DerivedDefaultKeys
               /\ HeaderNames \subseteq keys
               /\ Len(data) = Cardinality(keys)
               /\ \A name \in keys :
                     ValueOf(data, name) =
                         IF name \in HeaderNames THEN TransformedCell(name)
                         ELSE IF name \in SourceDefaultKeys
                              THEN ValueOf(source.default_values, name)
                         ELSE ResultDefault(name)

\* a is defined in all three layers and holds the extracted value, "007" with
\* its leading zeros stripped; b comes from the source default.
C2_Witness ==
    /\ pc = "extracted"
    /\ source.header = <<SourceProperty(KeyA, <<"A", "1">>, StripZeros)>>
    /\ sheet[<<1, 1>>] = StrCell(<<"0", "0", "7">>)
    /\ source.default_values = << <<KeyA, <<"S">> >>, <<KeyB, <<"S">> >> >>
    /\ KeyA \in DerivedDefaultKeys /\ KeyB \in DerivedDefaultKeys
    /\ ValueOf(header_data.value, KeyA) = <<"7">>
    /\ ValueOf(header_data.value, KeyB) = <<"S">>

\* The property is neither extracted nor defaulted.
NeitherExtractedNorDefaulted(p) ==
    /\ p.name \notin HeaderNames
    /\ p.name \notin SourceDefaultKeys
    /\ p.name \notin DerivedDefaultKeys

PositionInHeader(p) ==
    CHOOSE j \in 1..Len(result_header.properties) : result_header.properties[j] = p

\* C3: missing_properties returns exactly the properties of result_header
\* whose name is neither extracted, nor a key of source.default_values, nor a
\* key of the derived default values, in the order of result_header.properties.
C3_MissingExactlyUndefined ==
    pc /= "start" =>
        /\ \A k \in 1..Len(missing) :
              /\ \E j \in 1..Len(result_header.properties) :
                    result_header.properties[j] = missing[k]
              /\ NeitherExtractedNorDefaulted(missing[k])
        /\ \A j \in 1..Len(result_header.properties) :
              NeitherExtractedNorDefaulted(result_header.properties[j]) =>
                  \E k \in 1..Len(missing) : missing[k] = result_header.properties[j]
        /\ \A k \in 1..(Len(missing) - 1) :
              PositionInHeader(missing[k]) < PositionInHeader(missing[k + 1])

\* Both properties are missing, b before a as result_header lists them; a has
\* the default value "", which derives no default.
C3_Witness ==
    /\ pc = "ready"
    /\ result_header.properties[1].name = KeyB
    /\ Len(missing) = 2
    /\ missing[1].name = KeyB
    /\ missing[2] = ResultProperty(KeyA, "text", <<>>)

-----------------------------------------------------------------------------
(* Claims about read_table and extract_detail (SpecDetail) *)

\* The detail locator names a cell of the worksheet.
DetailLocatorWellFormed == source.detail.locator \in {<<"A", "1">>, <<"b", "1">>}

\* The coordinates of the well-formed detail locators of the model.
DetailStart ==
    CASE source.detail.locator = <<"A", "1">> -> [row |-> 1, col |-> 1]
      [] source.detail.locator = <<"b", "1">> -> [row |-> 1, col |-> 2]

\* The normalized value of the cell at (r, c); "" where the sheet has no cell.
TextAt(r, c) ==
    IF <<r, c>> \in DOMAIN sheet THEN CellToString(sheet[<<r, c>>]) ELSE <<>>

\* Empty or whitespace only.
BlankText(text) == \A i \in 1..Len(text) : text[i] = " "

\* The first-column value of row r is blank or equals the configured sentinel.
IsStopRow(r) ==
    \/ BlankText(TextAt(r, DetailStart.col))
    \/ /\ source.detail.end_value /= None
       /\ TextAt(r, DetailStart.col) = source.detail.end_value

\* The first stop row below the header row; the row below the last row of
\* the sheet is empty.
FirstStopRow ==
    CHOOSE r \in (DetailStart.row + 1)..(MaxTableRows + 2) :
        /\ IsStopRow(r)
        /\ \A q \in (DetailStart.row + 1)..(r - 1) : ~IsStopRow(q)

\* read_table has returned for a table with at least one header.
TableReadWithHeader ==
    /\ pc \in {"read", "detailed"}
    /\ DetailLocatorWellFormed
    /\ ~BlankText(TextAt(DetailStart.row, DetailStart.col))

\* C12: with at least one header, read_table returns exactly the consecutive
\* data rows from the row below the header row to just before the first row
\* whose first-column value is blank or equals the sentinel, in worksheet
\* order: as many rows as lead the table, the k-th read from the k-th row
\* below the headers, and none at or after the stop row.
C12_LeadingRowsOnly ==
    TableReadWithHeader =>
        /\ table.kind = "ok"
        /\ Len(table.value) = FirstStopRow - DetailStart.row - 1
        /\ \A k \in 1..Len(table.value) :
              /\ DetailStart.row + k < FirstStopRow
              /\ table.value[k] /= <<>>
              /\ \A n \in 1..Len(table.value[k]) :
                    \E i \in 1..Len(table.headers) :
                        /\ table.headers[i] = table.value[k][n][1]
                        /\ table.value[k][n][2] =
                               TextAt(DetailStart.row + k, DetailStart.col + i - 1)

\* Two rows lead the table from A1, differing in their second column, and both
\* are returned in worksheet order.
C12_Witness ==
    /\ pc = "read"
    /\ source.detail.locator = <<"A", "1">>
    /\ sheet[<<1, 1>>] = StrCell(<<"h">>) /\ sheet[<<1, 2>>] = StrCell(<<"k">>)
    /\ sheet[<<2, 2>>] = EmptyCell /\ sheet[<<3, 2>>] = FloatCell(5, <<>>)
    /\ table.value = << << <<<<"h">>, <<"0", "7">>>>, <<<<"k">>, <<>>>> >>,
                        << <<<<"h">>, <<"0", "7">>>>, <<<<"k">>, <<"5">>>> >> >>

\* C13: with a sentinel configured, read_table stops at the first data row
\* whose first-column normalized value equals the sentinel: that row and every
\* row below it are excluded, even if rows below it are non-empty.
C13_StopsAtSentinel ==
    (TableReadWithHeader /\ source.detail.end_value /= None) =>
        \A r \in (DetailStart.row + 1)..(MaxTableRows + 1) :
            TextAt(r, DetailStart.col) = source.detail.end_value =>
                /\ table.kind = "ok"
                /\ Len(table.value) < r - DetailStart.row

\* The sentinel is in the first data row, the row below it is non-empty, and
\* nothing is returned.
C13_Witness ==
    /\ pc = "read"
    /\ source.detail.locator = <<"A", "1">>
    /\ source.detail.end_value = <<"T">>
    /\ sheet[<<1, 1>>] = StrCell(<<"h">>)
    /\ sheet[<<2, 1>>] = StrCell(<<"T">>)
    /\ sheet[<<3, 1>>] = StrCell(<<"0", "7">>)
    /\ table = [kind |-> "ok", headers |-> <<<<"h">>, <<"k">>>>, value |-> <<>>]

\* The number of headers: the consecutive non-blank cells from the start
\* address rightward.
HeaderCount ==
    CHOOSE n \in 0..2 :
        /\ \A i \in 1..n :
              ~BlankText(TextAt(DetailStart.row, DetailStart.col + i - 1))
        /\ BlankText(TextAt(DetailStart.row, DetailStart.col + n))

\* The value a dict holds for a key it has.
RowValue(row, key) == row[CHOOSE n \in 1..Len(row) : row[n][1] = key][2]

\* C14: the headers are the normalized values of the consecutive cells from
\* the start address up to, and excluding, the first blank cell, verbatim;
\* every returned row maps exactly these header texts to the normalized values
\* of the same columns of that row and holds nothing from a column at or
\* beyond the right boundary; with no header the result is empty whatever the
\* cells below hold.
C14_HeadersAndColumns ==
    (pc \in {"read", "detailed"} /\ DetailLocatorWellFormed) =>
        /\ table.kind = "ok"
        /\ table.headers =
               [i \in 1..HeaderCount |->
                   TextAt(DetailStart.row, DetailStart.col + i - 1)]
        /\ HeaderCount = 0 => table.value = <<>>
        /\ \A k \in 1..Len(table.value) :
              /\ {table.value[k][n][1] : n \in 1..Len(table.value[k])}
                     = {table.headers[i] : i \in 1..HeaderCount}
              /\ \A i \in 1..HeaderCount :
                    RowValue(table.value[k], table.headers[i]) =
                        TextAt(DetailStart.row + k, DetailStart.col + i - 1)

\* C16: extract_detail returns one record per row of the Table Reader, in the
\* same order; each record holds, for every table column whose header text is
\* the locator of a detail SourceProperty, that property's name mapped to the
\* transformed cell value, and holds no key for an unmapped column.
C16_DetailRecords ==
    pc = "detailed" =>
        /\ detail_data.kind = "ok"
        /\ Len(detail_data.value) = Len(table.value)
        /\ \A k \in 1..Len(detail_data.value) :
              LET record == detail_data.value[k]
                  properties == source.detail.properties
              IN  /\ \A i \in 1..Len(table.headers), j \in 1..Len(properties) :
                        properties[j].locator = table.headers[i] =>
                            /\ \E n \in 1..Len(record) :
                                  record[n][1] = properties[j].name
                            /\ RowValue(record, properties[j].name) =
                                   ApplyReplacements(
                                       TextAt(DetailStart.row + k,
                                              DetailStart.col + i - 1),
                                       properties[j])
                  /\ \A n \in 1..Len(record) :
                        \E i \in 1..Len(table.headers), j \in 1..Len(properties) :
                            /\ properties[j].locator = table.headers[i]
                            /\ properties[j].name = record[n][1]

-----------------------------------------------------------------------------
(* Claims about apply_replacements (SpecReplace) *)

\* The value after the first n pairs: each step a global substitution on the
\* output of the step before.
RECURSIVE AfterPairs(_)
AfterPairs(n) ==
    IF n = 0 THEN raw_value
    ELSE ReSub(replace_prop.replacements[n][1], replace_prop.replacements[n][2],
               AfterPairs(n - 1))

\* C15: apply_replacements returns the value obtained by applying the
\* property's (pattern, replacement) pairs one after another in the configured
\* order, each a global substitution on the output of the previous step; with
\* no replacements the input is returned unchanged.
C15_ReplacementsInOrder ==
    pc = "replaced" =>
        /\ replaced = AfterPairs(Len(replace_prop.replacements))
        /\ replace_prop.replacements = <<>> => replaced = raw_value

\* The order is significant: "-07" with [("^0+", ""), ("-", "")] gives "07",
\* while the pairs in the other order would give "7".
C15_Witness ==
    /\ pc = "replaced"
    /\ raw_value = <<"-", "0", "7">>
    /\ replace_prop.replacements = << << <<"^", "0", "+">>, <<>> >>, << <<"-">>, <<>> >> >>
    /\ replaced = <<"0", "7">>
    /\ ReSub(<<"^", "0", "+">>, <<>>, ReSub(<<"-">>, <<>>, raw_value)) = <<"7">>

-----------------------------------------------------------------------------
(* Claims about create_zip (SpecZip) *)

\* C17: for any configured filenames and any contents, the archive returned
\* by create_zip holds exactly two entries, one named result.header.filename
\* whose decoded content is the header content and one named
\* result.detail.filename whose decoded content is the detail content, and
\* reading the archive by either configured name returns the matching content.
C17_TwoNamedEntries ==
    pc = "zipped" =>
        /\ archive.kind = "ok"
        /\ Len(archive.value) = 2
        /\ \E i \in 1..2 :
              /\ archive.value[i].filename = result.header.filename
              /\ Utf8Decode(archive.value[i].data) = header_content
              /\ archive.value[3 - i].filename = result.detail.filename
              /\ Utf8Decode(archive.value[3 - i].data) = detail_content
        /\ ZipRead(archive.value, result.header.filename).kind = "ok"
        /\ Utf8Decode(ZipRead(archive.value, result.header.filename).value)
               = header_content
        /\ ZipRead(archive.value, result.detail.filename).kind = "ok"
        /\ Utf8Decode(ZipRead(archive.value, result.detail.filename).value)
               = detail_content

-----------------------------------------------------------------------------
(* Claims about the /load pipeline (SpecLoad) *)

\* The source the configuration of the model holds.
LoadedSource == config.sources[1]

\* C18: a FileSpec filename that holds ${placeholder} tokens is expanded
\* against the header record before the archive is built: the archive's entry
\* names are the expanded filenames and hold no unexpanded ${...} token.
C18_EntryNamesExpanded ==
    \A i \in 1..Len(responses) :
        responses[i].kind = "file" =>
            /\ NameList(responses[i].zip_bytes) =
                   <<Expand(config.result.header.filename, responses[i].header_data),
                     Expand(config.result.detail.filename, responses[i].header_data)>>
            /\ \A n \in 1..Len(responses[i].zip_bytes) :
                  Placeholders(responses[i].zip_bytes[n].filename) = {}

\* C19: running extraction, generation and create_zip twice on the same
\* workbook, configuration and user-supplied values gives byte-identical
\* archives.
C19_SameArchiveTwice ==
    \A i \in 1..Len(responses), j \in 1..Len(responses) :
        (responses[i].kind = "file" /\ responses[j].kind = "file") =>
            responses[i].zip_bytes = responses[j].zip_bytes

\* The locator is one or more letters followed by one or more digits.
LocatorWellFormed(locator) ==
    \E k \in 1..(Len(locator) - 1) :
        /\ \A i \in 1..k : locator[i] \in {"A", "a", "b"}
        /\ \A i \in (k + 1)..Len(locator) : locator[i] \in {"1", "2"}

\* The request passes the handler's checks and the workbook has the sheet:
\* extraction runs.
ExtractionRuns ==
    /\ ValueOf(request.form, SourceField) = LoadedSource.name
    /\ request.file = FileStorage(<<"o">> \o Xlsx)
    /\ LoadedSource.sheet_index = 0

\* C20: extraction is all-or-nothing: a malformed header or detail locator
\* makes extraction fail with an error and return no record, and when
\* extraction returns normally the header record has a value for every header
\* SourceProperty name and every detail record has a value for every detail
\* SourceProperty name.
C20_AllOrNothing ==
    \A i \in 1..Len(responses) :
        /\ ( /\ ExtractionRuns
             /\ \/ \E j \in 1..Len(LoadedSource.header) :
                      ~LocatorWellFormed(LoadedSource.header[j].locator)
                \/ ~LocatorWellFormed(LoadedSource.detail.locator) )
               => responses[i].kind = "page"
        /\ responses[i].kind = "file" =>
               /\ \A j \in 1..Len(LoadedSource.header) :
                     \E n \in 1..Len(responses[i].header_data) :
                         responses[i].header_data[n][1] = LoadedSource.header[j].name
               /\ \A k \in 1..Len(responses[i].detail_data) :
                     \A j \in 1..Len(LoadedSource.detail.properties) :
                         \E n \in 1..Len(responses[i].detail_data[k]) :
                             responses[i].detail_data[k][n][1] =
                                 LoadedSource.detail.properties[j].name

\* C21: when the source's sheetIndex is not in 0 .. number of sheets - 1 the
\* conversion fails and no dataset or archive is produced, so every download
\* served comes from a sheetIndex inside that range.
C21_SheetIndexInRange ==
    \A i \in 1..Len(responses) :
        responses[i].kind = "file" =>
            /\ 0 <= LoadedSource.sheet_index
            /\ LoadedSource.sheet_index < Len(workbook)

-----------------------------------------------------------------------------
(* Claims about the configuration and the records (SpecFrame) *)

\* C22: no engine operation mutates configuration: after any sequence of
\* extract_header, extract_detail, missing_properties, generate_content and
\* create_zip calls, and after the caller merged the user's input and
\* sourceName into the header record, every dict of the Source holds what
\* was configured, and generate_content leaves its input records as they
\* were handed over.
C22_ConfigurationUnchanged ==
    /\ SubSeq(heap, 1, Len(ConfigObjects(config.sources[1])))
           = ConfigObjects(config.sources[1])
    /\ header_ref \notin 1..Len(ConfigObjects(config.sources[1]))
    /\ pc \in {"generated", "zipped"} =>
           /\ heap[header_ref] = records[1]
           /\ \A i \in 1..Len(detail_refs) :
                  heap[detail_refs[i]] = records[1 + i]

\* A second conversion has generated its contents, with expansions, on a
\* source that has default values.
C22_Witness ==
    /\ pc = "zipped"
    /\ config.sources[1].default_values /= <<>>
    /\ header_ref > Len(ConfigObjects(config.sources[1])) + 1
    /\ Len(heap) > header_ref + Len(detail_refs)
    /\ DictHas(heap[header_ref], SourceNameKey)

-----------------------------------------------------------------------------
(* Claims about concurrent requests (SpecConc) *)

\* C23: for any interleaving of two concurrent /load requests, the response
\* of each request, its archive included, equals the one the same request
\* produces when load() serves it alone, stamped at the same clock reading:
\* what the other request wrote never shows in it.
C23_SameAsAlone ==
    \A i \in 1..Len(threads) :
        threads[i].pc = "done" =>
            threads[i].response =
                Load(config, threads[i].request, threads[i].workbook,
                     threads[i].time, threads[i].build)

\* Two different requests were served with their steps interleaved and both
\* received an archive.
C23_Witness ==
    /\ \A i \in 1..2 :
          /\ threads[i].pc = "done"
          /\ threads[i].response.kind = "file"
          /\ threads[i].overlapped
    /\ threads[1].request /= threads[2].request
    /\ threads[1].workbook /= threads[2].workbook
    /\ threads[1].response.zip_bytes /= threads[2].response.zip_bytes

-----------------------------------------------------------------------------
(* Claims about user input (SpecLoad) *)

\* The value the form of the request carries for the field name.
FormValue(name) == DictGet(request.form, name, <<>>)

\* The date-typed properties the user is asked for.
DateFields ==
    SelectSeq(MissingProperties(LoadedSource, config.result.header),
              LAMBDA p : p.type = "date")

\* The characters of text that are decimal digits, in their order.
DigitsOf(text) == SelectSeq(text, IsDecimal)

-----------------------------------------------------------------------------
(* Claims about FileSpec.default_values (SpecHeader) *)

\* C25: FileSpec.default_values maps name to defaultValue for exactly the
\* properties that define a default value, and has no entry for a property
\* that defines none.
C25_DefaultsOfDefiningProperties ==
    \A j \in 1..Len(result_header.properties) :
        LET p == result_header.properties[j]
        IN  IF p.default_value /= None
            THEN DictGet(DefaultValues(result_header), p.name, None)
                     = p.default_value
            ELSE ~DictHas(DefaultValues(result_header), p.name)

-----------------------------------------------------------------------------
(* Claims about the desktop shell (SpecDesktop) *)

\* What loading the selected file under the selected source returns.
LoadOfSelection ==
    LoadAndPreview(selected_file, selected_source, config.result.header)

\* The button exports only when data_loaded is True, and data_loaded becomes
\* True only at the end of a load in which both extractions returned.
ExportOnlyWhenLoaded ==
    /\ event.handler = "export" => event.loaded_before
    /\ data_loaded /\ ~event.loaded_before =>
           event.handler = "pick" /\ event.outcome = "loaded"

\* With data_loaded a source and a file are selected and loading that file
\* under that source returns normally.
LoadedSelection ==
    data_loaded =>
        /\ selected_source /= NoSource
        /\ selected_file /= None
        /\ LoadOfSelection.kind = "ok"

\* C26 as stated: the button exports only in a state where data_loaded is
\* True; data_loaded becomes True only at the end of a load in which
\* extract_header and extract_detail both returned normally; and whenever
\* data_loaded is True a source is selected, a file is selected and
\* header_data and detail_data are what that load returned.
C26_LoadedDataIsTheLoadResult ==
    /\ ExportOnlyWhenLoaded
    /\ LoadedSelection
    /\ data_loaded =>
           /\ header_data = LoadOfSelection.value.header_data
           /\ detail_data = LoadOfSelection.value.detail_data

\* C26 as amended: the same, except that header_data is the header record
\* of that load to which an export attempt that did not complete may have
\* added the user's values of the missing properties and sourceName: every
\* other field of the load is there with its value, and there is no field
\* besides those.
C26_LoadedDataFromTheLoad ==
    /\ ExportOnlyWhenLoaded
    /\ LoadedSelection
    /\ data_loaded =>
           LET loaded == LoadOfSelection.value
               asked == MissingProperties(selected_source,
                                          config.result.header)
           IN  /\ detail_data = loaded.detail_data
               /\ \A i \in 1..Len(loaded.header_data) :
                      loaded.header_data[i][1] /= SourceNameKey =>
                          DictGet(header_data, loaded.header_data[i][1], None)
                              = loaded.header_data[i][2]
               /\ DictKeys(header_data) \subseteq
                      DictKeys(loaded.header_data) \cup {SourceNameKey}
                      \cup {asked[j].name : j \in 1..Len(asked)}

\* An export was cancelled after a load: the data are still loaded and the
\* header record has the user's field and sourceName in it.
C26_Witness ==
    /\ data_loaded
    /\ event = [handler |-> "export", outcome |-> "cancelled",
                loaded_before |-> TRUE]
    /\ header_data /= LoadOfSelection.value.header_data
    /\ DictHas(header_data, SourceNameKey)

\* C27: after a successful save, after a load error and after every source
\* selection the shell is in file-picker mode with data_loaded = False,
\* selected_file = None, header_data = {} and detail_data = []; so whenever
\* data are loaded they were extracted under the source that is selected.
C27_BackToFilePicker ==
    /\ \/ event.handler = "source"
       \/ event.handler = "pick" /\ event.outcome = "load error"
       \/ event.handler = "export" /\ event.outcome = "saved"
       => /\ ~data_loaded
          /\ selected_file = None
          /\ header_data = <<>>
          /\ detail_data = <<>>
    /\ data_loaded =>
           /\ LoadOfSelection.kind = "ok"
           /\ detail_data = LoadOfSelection.value.detail_data

\* Another source was selected while data were loaded.
C27_Witness ==
    /\ event.handler = "source"
    /\ event.loaded_before
    /\ selected_source /= NoSource
    /\ DictHas(disk, PathOut)

\* C28: when an export raises or the user cancels the save dialog, no file
\* is written and the shell is not reset: data_loaded stays True and
\* selected_source, selected_file and detail_data are unchanged.
C28_FailedExportLeavesAll ==
    [][event'.handler = "export" /\ event'.outcome \in {"error", "cancelled"}
          => /\ data_loaded'
             /\ selected_source' = selected_source
             /\ selected_file' = selected_file
             /\ detail_data' = detail_data
             /\ disk' = disk]_vars

-----------------------------------------------------------------------------
(* Claims about the loops of read_table (SpecScan) *)

\* The header scan has ended at a blank cell: every cell from the start
\* column up to col holds a header, and the cell at col is blank.
HeaderScanEndedAtBlank ==
    /\ \A c \in start_at.col..(scan_col - 1) :
          ~IsBlank(CellToString(SheetCell(sheet, start_at.row, c)))
    /\ SheetCell(sheet, start_at.row, scan_col) /= ValueError
    /\ IsBlank(CellToString(SheetCell(sheet, start_at.row, scan_col)))

\* The row scan has ended at a stop row: no row from the first data row up
\* to row_num is a stop row, and row_num is one.
RowScanEndedAtStopRow ==
    /\ \A r \in (start_at.row + 1)..(scan_row_num - 1) :
          ~StopsAt(sheet, r, start_at.col, source.detail.end_value)
    /\ StopsAt(sheet, scan_row_num, start_at.col, source.detail.end_value)

\* Both scans of a call with an address parse_cell_address accepts end at
\* their stop conditions and in no other way.
ScansEndOnlyAtStopConditions ==
    (scan_pc \notin {"idle", "headers"} /\ start_at /= ValueError) =>
        /\ scan_pc /= "raised"
        /\ HeaderScanEndedAtBlank
        /\ (scan_pc = "returned" /\ scan_headers /= <<>>) =>
               RowScanEndedAtStopRow

\* C29: read_table terminates on every finite sheet: the header scan ends at
\* the first blank header cell and the row scan at the first row whose first
\* cell is blank or equals the sentinel, and these are the only ways either
\* scan ends.
C29_ScansTerminateAtStopConditions ==
    /\ <>(scan_pc \in {"returned", "raised"})
    /\ []ScansEndOnlyAtStopConditions

\* Every call ends, returning or raising.
ScanTerminates == <>(scan_pc \in {"returned", "raised"})

\* The same for the start addresses whose row is at least 1.
ScansEndFromRowOne ==
    (start_at /= NotCalled /\ start_at /= ValueError /\ start_at.row >= 1) =>
        ScansEndOnlyAtStopConditions

-----------------------------------------------------------------------------
(* Claims about user input and the header record (SpecForms) *)

\* The source the i-th request selects, the record extract_header returns
\* for it, and the names missing_properties returns for it.
SourceServed(i) ==
    DictGet(SourceMap(<<>>, config.sources),
            DictGet(served[i].form, SourceField, None), None)

ExtractedFor(i) ==
    ExtractHeader(workbook[1], SourceServed(i), config.result.header).value

MissingNames(i) ==
    {p.name : p \in {MissingProperties(SourceServed(i),
                                       config.result.header)[n] :
                        n \in 1..Len(MissingProperties(SourceServed(i),
                                                       config.result.header))}}

\* The header fields that are extracted from the workbook or supplied by a
\* source default or by a result property that defines a default.
ProtectedNames(i) ==
    {p.name : p \in {SourceServed(i).header[n] :
                        n \in 1..Len(SourceServed(i).header)}}
    \cup DictKeys(SourceServed(i).default_values)
    \cup {p.name : p \in {q \in {config.result.header.properties[n] :
                                    n \in 1..Len(config.result.header.properties)} :
                             q.default_value /= None}}

\* The names and contents of the files of a response.
FilesOf(response) ==
    [n \in 1..Len(response.zip_bytes) |->
        <<response.zip_bytes[n].filename, response.zip_bytes[n].data>>]

\* A form value reaches the header record only under a missing property's
\* name; the handler itself adds sourceName.
UserValuesOnlyUnderMissingNames ==
    \A i \in 1..Len(responses) :
        responses[i].kind = "file" =>
            \A key \in DictKeys(responses[i].header_data) :
                \/ key \in MissingNames(i)
                \/ key = SourceNameKey
                \/ /\ DictHas(ExtractedFor(i), key)
                   /\ DictGet(responses[i].header_data, key, None) =
                          DictGet(ExtractedFor(i), key, None)

\* Every extracted or defaulted field has the value extraction gave it.
ProtectedFieldsKeepValues ==
    \A i \in 1..Len(responses) :
        responses[i].kind = "file" =>
            \A key \in ProtectedNames(i) :
                DictGet(responses[i].header_data, key, <<>>) =
                    DictGet(ExtractedFor(i), key, <<>>)

\* Two requests that agree on the source and on every missing property's
\* field are answered with the same files.
SameFilesForSameMissingFields ==
    \A i, j \in 1..Len(responses) :
        (/\ DictGet(served[i].form, SourceField, None) =
                DictGet(served[j].form, SourceField, None)
         /\ \A key \in MissingNames(i) :
                DictGet(served[i].form, key, None) =
                    DictGet(served[j].form, key, None))
        => /\ responses[i].kind = responses[j].kind
           /\ responses[i].kind = "file" =>
                  FilesOf(responses[i]) = FilesOf(responses[j])

\* C30: user input never replaces extracted or defaulted data: a user's
\* value is written into the header record only under a name returned by
\* missing_properties for the selected source, so every field extracted from
\* the workbook or supplied by a source or result default keeps its value,
\* and two /load requests that differ only in form fields that are not
\* missing properties produce the same file contents.
C30_UserInputReplacesNothing ==
    /\ UserValuesOnlyUnderMissingNames
    /\ ProtectedFieldsKeepValues
    /\ SameFilesForSameMissingFields

\* The protected fields other than sourceName and other than those whose
\* default is the empty string keep their values.
OtherProtectedFieldsKeepValues ==
    \A i \in 1..Len(responses) :
        responses[i].kind = "file" =>
            \A key \in ProtectedNames(i) \ {SourceNameKey} :
                (\A n \in 1..Len(config.result.header.properties) :
                    config.result.header.properties[n].name = key =>
                        config.result.header.properties[n].default_value /= <<>>)
                => DictGet(responses[i].header_data, key, <<>>) =
                       DictGet(ExtractedFor(i), key, <<>>)

====
